---- MODULE Spec2Model ----
(***************************************************************************)
(* Model of the activation Builder of go-spacemesh (package activation),    *)
(* of the nipost tables of the local database it persists to, and of the    *)
(* positioning-ATX selection it uses.                                       *)
(*                                                                          *)
(* Specifications:                                                          *)
(*   SpecDB   the nipost challenge table driven through its API             *)
(*   SpecLife Register / StartSmeshing / StopSmeshing over several          *)
(*            identities, each with its goroutines                          *)
(*   Spec     the control loop (Builder.run) of one identity in full detail *)
(*   SpecSel  findFullyValidHighTickAtx over a finite candidate store       *)
(***************************************************************************)
EXTENDS Integers, Sequences, FiniteSets, TLC

(***************************************************************************)
(* Domains                                                                  *)
(***************************************************************************)

\* node identities (types.NodeID)
NodeIDs == {"n1", "n2"}

\* types.EmptyATXID, the zero-filled "no previous ATX" sentinel
EmptyATXID == "empty"

\* Config.GoldenATXID
GoldenATXID == "golden"

\* An optional value (a Go pointer that may be nil) is the empty set or a
\* singleton.
Nil == {}

Some(x) == {x}

\* the value of a non-nil optional
Get(o) == CHOOSE x \in o : TRUE

VARIABLES
    \* ---- local database (sql/localsql/nipost) ----
    challenges,     \* table challenge: one row per identity (primary key id)
    initialPosts,   \* table initial_post: rows [id, post], primary key id
    dbRet,          \* what the last direct call of the table API returned
    \* ---- findFullyValidHighTickAtx ----
    selStore,       \* ids of the ATXs known to the store (db)
    selValid,       \* ids whose chain validator.VerifyChain accepts
    selCtxDone,     \* ctx of the call is cancelled
    selPc,          \* position in the function
    rejectedAtxs,   \* the rejection set (local map rejectedAtxs)
    selCand,        \* id returned by GetIDWithMaxHeight in this iteration
    selRet,         \* what the function returned
    selVerified,    \* ids handed to VerifyChain so far, in order
    \* ---- Builder ----
    signers,        \* Builder.signers: the registered identities
    started,        \* Builder.stop != nil
    lifeDone,       \* the context made by StartSmeshing is cancelled
    mutex,          \* smeshingMutex: "free", or "stop" while StopSmeshing waits
    deleteFiles,    \* argument of the StopSmeshing call in progress
    live,           \* Builder.eg: number of goroutines not yet returned, per
                    \* [id, kind, ctx]
    coinbaseAccount,\* Builder.coinbaseAccount
    regossip,       \* conf.RegossipInterval != 0
    regossipRet,    \* what the last call of Regossip by a ticker loop returned
    accountLock,    \* Builder.accountLock: "free", "rlocked" or "locked"
    caller,         \* a caller of Coinbase / SetCoinbase from outside the
                    \* Builder: argument, value returned, and whether
                    \* coinbaseAccount was written while it held the lock
    lifeRet,        \* what the last Register/StartSmeshing/StopSmeshing returned
    postStates,     \* Builder.postStates
    proverState,    \* in-progress state of nipostBuilder, per identity
    loop,           \* per identity: position and locals of its Builder.run
    \* ---- environment of the Builder ----
    now,            \* wall-clock time, in units of LayerDuration
    synced,         \* syncer reports ATXs synced
    lastAtx,        \* cdb.GetLastAtx per identity, optional
    network,        \* per identity, the last ATX the publisher accepted
    \* ---- migration 0003 of the local database ----
    builderState,   \* the nipost builder state file in dataDir, optional
    poetRegistrations, \* table poet_registration: rows [id, hash, address]
    poetProofRefs,  \* column poet_proof_ref of table challenge, per identity
    nipostRows,     \* table nipost: rows [id, post, poet_proof_ref]
    migRet,         \* what moveNipostStateToDb returned
    \* ---- DataFetch ----
    atxSynced,      \* DataFetch.atxSynced: per epoch, optional set of peers
    fetchCall       \* per caller: position and locals of its GetEpochATXs

dbVars == <<challenges, initialPosts, dbRet>>

selVars == <<selStore, selValid, selCtxDone, selPc, rejectedAtxs, selCand,
             selRet, selVerified>>

lifeVars == <<signers, started, lifeDone, mutex, deleteFiles, live,
              coinbaseAccount, regossip, regossipRet, accountLock, caller,
              lifeRet, postStates>>

envVars == <<now, synced, lastAtx, network>>

migVars == <<builderState, poetRegistrations, poetProofRefs, nipostRows,
             migRet>>

fetchVars == <<atxSynced, fetchCall>>

vars == <<dbVars, selVars, lifeVars, proverState, loop, envVars, migVars,
          fetchVars>>

(***************************************************************************)
(* The nipost tables.  The package's implementation is not part of the      *)
(* sources at hand; the operators follow its tests and its use by Builder.  *)
(***************************************************************************)

\* rows of a table that belong to id
RowsOf(table, id) == {r \in table : r.id = id}

\* the row AddChallenge and UpdateChallenge bind for a challenge: one column
\* per field, the commitment ATX and the three columns of the initial post
\* NULL (empty) when the challenge has none
ChallengeRow(id, ch) ==
    [id |-> id, epoch |-> ch.PublishEpoch, sequence |-> ch.Sequence,
     prev_atx |-> ch.PrevATXID, pos_atx |-> ch.PositioningATX,
     commit_atx |-> ch.CommitmentATX,
     post_nonce |-> {p.Nonce : p \in ch.InitialPost},
     post_indices |-> {p.Indices : p \in ch.InitialPost},
     post_pow |-> {p.Pow : p \in ch.InitialPost}]

\* variant of the decoding that never reads the columns of the initial post
ChallengeOfRowNoPost(r) ==
    [PublishEpoch |-> r.epoch, Sequence |-> r.sequence,
     PrevATXID |-> r.prev_atx, PositioningATX |-> r.pos_atx,
     CommitmentATX |-> r.commit_atx, InitialPost |-> Nil]

\* the challenge Challenge decodes from a row: the optional fields are set
\* when their columns are not NULL
ChallengeOfRow(r) ==
    [PublishEpoch |-> r.epoch, Sequence |-> r.sequence,
     PrevATXID |-> r.prev_atx, PositioningATX |-> r.pos_atx,
     CommitmentATX |-> r.commit_atx,
     InitialPost |-> IF r.post_indices = {}
                     THEN Nil
                     ELSE Some([Nonce |-> Get(r.post_nonce),
                                Indices |-> Get(r.post_indices),
                                Pow |-> Get(r.post_pow)])]

\* nipost.Challenge: the persisted challenge of id as an optional; Nil is
\* sql.ErrNotFound
Challenge(table, id) == {ChallengeOfRow(r) : r \in RowsOf(table, id)}

\* variant of AddChallenge without the primary-key check: the row is
\* inserted next to an existing one
AddChallengeNoKey(table, id, ch) ==
    [err |-> FALSE, table |-> table \cup {ChallengeRow(id, ch)}]

\* nipost.AddChallenge: insert; fails on an existing row of id (primary key)
\* and then leaves the table as it was
AddChallenge(table, id, ch) ==
    IF RowsOf(table, id) # {}
    THEN [err |-> TRUE, table |-> table]
    ELSE [err |-> FALSE, table |-> table \cup {ChallengeRow(id, ch)}]

\* nipost.RemoveChallenge: delete the row of id (no error when absent)
RemoveChallenge(table, id) == table \ RowsOf(table, id)

\* variant of UpdateChallenge that leaves the old row in place
UpdateChallengeInsert(table, id, ch) ==
    IF RowsOf(table, id) = {}
    THEN table
    ELSE table \cup {ChallengeRow(id, ch)}

\* nipost.UpdateChallenge: replace the row of id
UpdateChallenge(table, id, ch) ==
    IF RowsOf(table, id) = {}
    THEN table
    ELSE (table \ RowsOf(table, id)) \cup {ChallengeRow(id, ch)}

\* nipost.InitialPost (GetPost in the package's tests): the persisted
\* initial post of id as an optional; Nil is sql.ErrNotFound
InitialPost(table, id) == {r.post : r \in RowsOf(table, id)}

\* variant of AddInitialPost that keeps a row the identity already has
AddInitialPostKeepFirst(table, id, post) ==
    IF RowsOf(table, id) # {}
    THEN table
    ELSE table \cup {[id |-> id, post |-> post]}

\* nipost.AddInitialPost (AddPost in the package's tests): insert or replace
\* the row of id
AddInitialPost(table, id, post) ==
    (table \ RowsOf(table, id)) \cup {[id |-> id, post |-> post]}

\* nipost.RemoveInitialPost
RemoveInitialPost(table, id) == table \ RowsOf(table, id)


(***************************************************************************)
(* SpecDB: the challenge table driven through its API, as the package's     *)
(* tests drive it.                                                          *)
(***************************************************************************)

\* a types.Post as stored in a challenge
TestPost == [Nonce |-> 1, Indices |-> <<1, 2, 3>>, Pow |-> 1]

\* the challenges the table is driven with: two regular ones that differ in
\* Sequence only, and an initial one with commitment ATX and initial post
TestChallenges ==
    { [PublishEpoch |-> 4, Sequence |-> s, PrevATXID |-> "x1",
       PositioningATX |-> "x2", CommitmentATX |-> Nil, InitialPost |-> Nil]
        : s \in {2, 3} }
    \cup
    { [PublishEpoch |-> 6, Sequence |-> 0, PrevATXID |-> EmptyATXID,
       PositioningATX |-> "x2", CommitmentATX |-> Some("x1"),
       InitialPost |-> Some(TestPost)] }

\* the posts of Test_OverwritePost
TestPosts ==
    { [Nonce |-> 1, Indices |-> <<1, 2, 3>>, Pow |-> 1, NumUnits |-> 2,
       CommitmentATX |-> "x1", VRFNonce |-> 3],
      [Nonce |-> 11, Indices |-> <<4, 5, 6>>, Pow |-> 11, NumUnits |-> 22,
       CommitmentATX |-> "x2", VRFNonce |-> 33] }

DbNoCall == [op |-> "none", id |-> "n1", arg |-> Nil, err |-> FALSE,
             val |-> Nil, before |-> {}, had |-> Nil,
             prev |-> [op |-> "none", id |-> "n1", arg |-> Nil,
                       err |-> FALSE, had |-> Nil]]

\* the record of a call: what it was given, what it returned, the table
\* before it and what that table had for id, and the call made before it
DbCall(op, id, arg, err, val, before) ==
    [op |-> op, id |-> id, arg |-> arg, err |-> err, val |-> val,
     before |-> before,
     had |-> IF op \in {"AddPost", "GetPost"}
             THEN InitialPost(before, id) ELSE Challenge(before, id),
     prev |-> [op |-> dbRet.op, id |-> dbRet.id, arg |-> dbRet.arg,
               err |-> dbRet.err, had |-> dbRet.had]]

DbInit ==
    /\ challenges = {}
    /\ initialPosts = {}
    /\ dbRet = DbNoCall

\* err := AddChallenge(db, id, ch)
DbAddChallenge(id, ch) ==
    LET r == AddChallenge(challenges, id, ch) IN
    /\ challenges' = r.table
    /\ dbRet' = DbCall("AddChallenge", id, Some(ch), r.err, Nil, challenges)
    /\ UNCHANGED initialPosts

\* err := RemoveChallenge(db, id)
DbRemoveChallenge(id) ==
    /\ challenges' = RemoveChallenge(challenges, id)
    /\ dbRet' = DbCall("RemoveChallenge", id, Nil, FALSE, Nil, challenges)
    /\ UNCHANGED initialPosts

\* challenge, err := Challenge(db, id)
DbChallenge(id) ==
    /\ dbRet' = DbCall("Challenge", id, Nil, Challenge(challenges, id) = Nil,
                       Challenge(challenges, id), challenges)
    /\ UNCHANGED <<challenges, initialPosts>>

\* err := UpdateChallenge(db, id, ch)
DbUpdateChallenge(id, ch) ==
    /\ challenges' = UpdateChallenge(challenges, id, ch)
    /\ dbRet' = DbCall("UpdateChallenge", id, Some(ch), FALSE, Nil,
                       challenges)
    /\ UNCHANGED initialPosts

\* err := AddPost(db, id, post)
DbAddPost(id, post) ==
    /\ initialPosts' = AddInitialPost(initialPosts, id, post)
    /\ dbRet' = DbCall("AddPost", id, Some(post), FALSE, Nil, initialPosts)
    /\ UNCHANGED challenges

\* post, err := GetPost(db, id)
DbGetPost(id) ==
    /\ dbRet' = DbCall("GetPost", id, Nil, InitialPost(initialPosts, id) = Nil,
                       InitialPost(initialPosts, id), initialPosts)
    /\ UNCHANGED <<challenges, initialPosts>>

DbNext ==
    \E id \in NodeIDs :
        \/ \E ch \in TestChallenges : DbAddChallenge(id, ch)
        \/ DbRemoveChallenge(id)
        \/ DbChallenge(id)
        \/ \E ch \in TestChallenges : DbUpdateChallenge(id, ch)
        \/ \E post \in TestPosts : DbAddPost(id, post)
        \/ DbGetPost(id)

(***************************************************************************)
(* findFullyValidHighTickAtx                                                *)
(***************************************************************************)

\* the candidate ATXs, ranked A > B > C by tick height
Candidates == {"A", "B", "C"}

\* tick height of a candidate
Height(a) == CASE a = "A" -> 3 [] a = "B" -> 2 [] OTHER -> 1

\* variant of the filter that forgets the rejection set
filterNone(rejected, id) == TRUE

\* the closure filter: an id passes unless it was rejected
filter(rejected, id) == id \notin rejected

\* atxs.GetIDWithMaxHeight: the id of highest tick height among the ids of
\* the store that pass the filter, as an optional; Nil is sql.ErrNotFound.
\* (The query is not part of the sources at hand.)
GetIDWithMaxHeight(store, rejected) ==
    LET pass == {a \in store : filter(rejected, a)} IN
    {a \in pass : \A o \in pass : Height(o) <= Height(a)}

SelNoRet == [id |-> EmptyATXID, err |-> "running"]

SelIdle ==
    /\ selStore = {}
    /\ selValid = {}
    /\ selCtxDone = FALSE
    /\ selPc = "idle"
    /\ rejectedAtxs = {}
    /\ selCand = EmptyATXID
    /\ selRet = SelNoRet
    /\ selVerified = <<>>

\* the call starts: rejectedAtxs := make(map), over any store and any verdicts
SelInit ==
    /\ selStore \in SUBSET Candidates
    /\ selValid \in SUBSET Candidates
    /\ selCtxDone = FALSE
    /\ selPc = "loop"
    /\ rejectedAtxs = {}
    /\ selCand = EmptyATXID
    /\ selRet = SelNoRet
    /\ selVerified = <<>>

\* the caller's context is cancelled while the function runs
SelCancel ==
    /\ selPc \in {"loop", "verify"}
    /\ ~selCtxDone
    /\ selCtxDone' = TRUE
    /\ UNCHANGED <<migVars, fetchVars, selStore, selValid, selPc, rejectedAtxs,
                   selCand, selRet, selVerified>>

\* top of an iteration: the non-blocking ctx check, then GetIDWithMaxHeight,
\* which finds an id, finds none (sql.ErrNotFound) or fails otherwise (dbErr)
SelIterate ==
    /\ selPc = "loop"
    /\ IF selCtxDone
       THEN /\ selRet' = [id |-> EmptyATXID, err |-> "canceled"]
            /\ selPc' = "done"
            /\ UNCHANGED selCand
       ELSE \E dbErr \in BOOLEAN :
            LET got == GetIDWithMaxHeight(selStore, rejectedAtxs) IN
            IF dbErr
            THEN /\ selRet' = [id |-> EmptyATXID, err |-> "db"]
                 /\ selPc' = "done"
                 /\ UNCHANGED selCand
            ELSE IF got = Nil
            THEN /\ selRet' = [id |-> EmptyATXID, err |-> "notfound"]
                 /\ selPc' = "done"
                 /\ UNCHANGED selCand
            ELSE /\ selCand' = Get(got)
                 /\ selPc' = "verify"
                 /\ UNCHANGED selRet
    /\ UNCHANGED <<migVars, fetchVars, selStore, selValid, selCtxDone,
                   rejectedAtxs, selVerified>>

\* variant of the rejection that forgets the candidate
RejectNothing(rejected, id) == rejected

\* rejectedAtxs[id] = struct{}{}
Reject(rejected, id) == rejected \cup {id}

\* validator.VerifyChain(ctx, id, goldenATXID, opts...): fails for an id
\* whose chain is not valid, and may fail for any id once ctx is cancelled
SelVerify ==
    /\ selPc = "verify"
    /\ selVerified' = Append(selVerified, selCand)
    /\ \E ctxErr \in {FALSE, selCtxDone} :
        IF selCand \in selValid /\ ~ctxErr
        THEN /\ selRet' = [id |-> selCand, err |-> "none"]
             /\ selPc' = "done"
             /\ UNCHANGED rejectedAtxs
        ELSE /\ rejectedAtxs' = Reject(rejectedAtxs, selCand)
             /\ selPc' = "loop"
             /\ UNCHANGED selRet
    /\ UNCHANGED <<migVars, fetchVars, selStore, selValid, selCtxDone,
                   selCand>>

SelNext == SelCancel \/ SelIterate \/ SelVerify

(***************************************************************************)
(* The Builder: clock, contexts and goroutines                              *)
(***************************************************************************)

\* last instant of the model's clock
MaxTime == 4

\* broadcast attempts counted per PublishActivationTx call
MaxBroadcasts == 1

\* the clock stops at this time in SpecResume
MaxResumeTime == 6

\* duration of a layer, the unit of time
LayerDuration == 1

\* layers per epoch (types.EpochID.FirstLayer, LayerID.GetEpoch)
LayersPerEpoch == 2

\* PoetConfig.PhaseShift and PoetConfig.GracePeriod, in units of time
PhaseShift == 1

GracePeriod == 1

\* maxNipostChallengeBuildJitter, in % of the grace period
maxNipostChallengeBuildJitter == 1

\* coinbase addresses
Addresses == {"cb1", "cb2"}

\* the goroutines of Builder.eg are counted per identity, kind ("run" is
\* Builder.run, "regossip" the ticker loop of startID) and context ("life" is
\* the context StartSmeshing made, "parent" is Builder.parentCtx)
GKeys == NodeIDs \X {"run", "regossip"} \X {"life", "parent"}

\* Builder.parentCtx is context.Background(): never cancelled
ParentDone == FALSE

\* ctx.Done() is closed
CtxDone(ctx) == IF ctx = "life" THEN lifeDone ELSE ParentDone

\* layerClock.LayerToTime, with genesis at time 0
LayerToTime(layer) == layer * LayerDuration

\* layerClock.CurrentLayer at time t
LayerAt(t) == t \div LayerDuration

\* EpochID.FirstLayer
FirstLayer(epoch) == epoch * LayersPerEpoch

\* LayerID.GetEpoch
GetEpoch(layer) == layer \div LayersPerEpoch

\* layerClock.CurrentLayer().GetEpoch() at time t
EpochAt(t) == GetEpoch(LayerAt(t))

\* Builder.poetRoundStart
poetRoundStart(epoch) == LayerToTime(FirstLayer(epoch)) + PhaseShift

\* buildNipostChallengeStartDeadline, for the jitter drawn
buildNipostChallengeStartDeadline(roundStart, jitter) ==
    roundStart + jitter - GracePeriod

\* the values randomDurationInRange(0, gracePeriod * maxJitter / 100) draws from
Jitters == 0 .. ((GracePeriod * maxNipostChallengeBuildJitter) \div 100)

\* NIPostChallenge.TargetEpoch
TargetEpoch(ch) == ch.PublishEpoch + 1

\* variant of the deadline that falls one layer later
DeadlineLate(ch) == LayerToTime(FirstLayer(TargetEpoch(ch)) + 1)

\* deadline of the context PublishActivationTx derives for a challenge
Deadline(ch) == LayerToTime(FirstLayer(TargetEpoch(ch)))

\* positions of Builder.run at which it is inside a select that can block
WaitPcs == {"initialPostWait", "waitSync", "waitRound", "waitPublish",
            "retryWait", "retryInterval"}

\* the selects that wait for a time or a layer of the clock
TimedWaitPcs == {"initialPostWait", "waitRound", "waitPublish", "retryWait"}

\* positions at which the context derived by PublishActivationTx exists
DerivedCtxPcs == {"buildNIPost", "waitPublish", "broadcast"}

\* position and locals of a control loop that does not exist
LoopIdle ==
    [pc |-> "none", ctx |-> "life", wake |-> "none", until |-> 0,
     cur0 |-> 0, cur |-> 0, pre |-> Nil, prev |-> Nil, ops |-> <<>>,
     chal |-> Nil,
     posAtx |-> EmptyATXID, nipost |-> Nil, atx |-> Nil, ctxErr |-> "none",
     err |-> "none", outcome |-> "none", cancelledAt |-> "none",
     nProve |-> 0, nBuilt |-> 0, oldNonce |-> "unread",
     nBcast |-> 0, sent |-> {}, lapsed |-> FALSE, logged |-> {}]

\* the case a select takes when the loop arrives at it: one of the ready
\* cases, or "none" (the goroutine blocks) when no case is ready
Arrive(doneReady, eventReady) ==
    IF ~doneReady /\ ~eventReady THEN {"none"}
    ELSE {w \in {"done", "event"} :
            (w = "done" /\ doneReady) \/ (w = "event" /\ eventReady)}

\* a loop record at the moment its lifecycle context is cancelled: a blocked
\* select is woken by ctx.Done(), the derived context takes the error
\* Canceled unless its deadline had already expired
OnCancel(l) ==
    IF l.ctx # "life" \/ l.pc \in {"none", "exited"} THEN l
    ELSE [l EXCEPT
            !.wake = IF l.pc \in WaitPcs /\ l.wake = "none" THEN "done" ELSE @,
            !.ctxErr = IF l.pc \in DerivedCtxPcs /\ l.ctxErr = "none"
                       THEN "canceled" ELSE @,
            !.cancelledAt =
                IF (l.pc \in WaitPcs /\ l.wake = "none") \/ l.pc = "broadcast"
                THEN l.pc ELSE "elsewhere"]

\* a loop record when the clock reaches time t: a select blocked on a layer or
\* a timer is woken by it, the derived context expires at its deadline
OnTick(l, t) ==
    [l EXCEPT
        !.wake = IF l.pc \in TimedWaitPcs /\ l.wake = "none" /\ t >= l.until
                 THEN "event" ELSE @,
        !.ctxErr = IF /\ l.pc \in DerivedCtxPcs /\ l.ctxErr = "none"
                      /\ t >= Deadline(Get(l.chal))
                   THEN "deadline" ELSE @]

(***************************************************************************)
(* The Builder: Register, StartSmeshing, StopSmeshing                       *)
(***************************************************************************)

\* no call of Regossip made yet
RegossipNoCall == [id |-> "n1", err |-> "none", sent |-> Nil]

\* no call of Coinbase or SetCoinbase in progress or returned
NoCaller == [arg |-> "zero", ret |-> Nil, raced |-> FALSE]

\* the write of b.coinbaseAccount by StartSmeshing, which holds smeshingMutex
\* but not accountLock: a caller inside Coinbase or SetCoinbase races with it
RacedBy(c) == IF accountLock # "free" THEN [c EXCEPT !.raced = TRUE] ELSE c

\* NewBuilder: the fields of the Builder
NewBuilder ==
    /\ signers = {}
    /\ started = FALSE
    /\ lifeDone = FALSE
    /\ mutex = "free"
    /\ deleteFiles = FALSE
    /\ live = [k \in GKeys |-> 0]
    /\ coinbaseAccount = "zero"
    /\ accountLock = "free"
    /\ caller = NoCaller
    /\ regossipRet = RegossipNoCall
    /\ lifeRet = [op |-> "none", err |-> {}]
    /\ postStates = [id \in NodeIDs |-> "absent"]
    /\ loop = [id \in NodeIDs |-> LoopIdle]

\* NewBuilder with a nipostBuilder that holds no proving state
BuilderInit ==
    /\ NewBuilder
    /\ proverState = [id \in NodeIDs |-> "idle"]

\* the node's clock, syncer and ATX store when the Builder is made
EnvInit ==
    /\ now = 0
    /\ synced = FALSE
    /\ lastAtx = [id \in NodeIDs |-> Nil]
    /\ network = [id \in NodeIDs |-> Nil]

\* Builder.startID for each identity of ids: eg.Go(run), and eg.Go(the
\* regossip ticker loop) unless conf.RegossipInterval == 0
startID(lv, ctx, ids) ==
    [k \in GKeys |->
        lv[k] + IF k[1] \in ids /\ k[3] = ctx /\ (k[2] = "run" \/ regossip)
                THEN 1 ELSE 0]

\* the run goroutines of id that have not returned
Loops(id) == live[<<id, "run", "life">>] + live[<<id, "run", "parent">>]

\* variant of Register without the check for a registered key
RegisterAgain(id) ==
    /\ mutex = "free"
    /\ lifeRet' = [op |-> "Register", err |-> {}]
    /\ signers' = signers \cup {id}
    /\ postStates' = [postStates EXCEPT ![id] = "idle"]
    /\ IF started
       THEN /\ live' = startID(live, "parent", {id})
            /\ loop' = [loop EXCEPT ![id] =
                          [LoopIdle EXCEPT !.pc = "initialPost",
                                           !.ctx = "parent"]]
       ELSE UNCHANGED <<live, loop>>
    /\ UNCHANGED <<started, lifeDone, mutex, deleteFiles, coinbaseAccount,
                   regossip, regossipRet, accountLock, caller, proverState,
                   dbVars, selVars, migVars, fetchVars, envVars>>

\* Builder.Register
Register(id) ==
    /\ mutex = "free"
    /\ lifeRet' = [op |-> "Register", err |-> {}]
    /\ IF id \in signers
       THEN UNCHANGED <<signers, postStates, live, loop>>
       ELSE /\ signers' = signers \cup {id}
            /\ postStates' = [postStates EXCEPT ![id] = "idle"]
            /\ IF started
               THEN /\ live' = startID(live, "parent", {id})
                    /\ loop' = [loop EXCEPT ![id] =
                                  [LoopIdle EXCEPT !.pc = "initialPost",
                                                   !.ctx = "parent"]]
               ELSE UNCHANGED <<live, loop>>
    /\ UNCHANGED <<started, lifeDone, mutex, deleteFiles, coinbaseAccount,
                   regossip, regossipRet, accountLock, caller, proverState,
                   dbVars, selVars, migVars, fetchVars, envVars>>

\* the errors of StartSmeshing and of StopSmeshing for the state of b.stop,
\* in the form of the errors of StopSmeshing's reset: the call that failed
\* and the identity it failed for (none here)
ErrAlreadyStarted == <<"already started", "">>
ErrNotStarted == <<"not started", "">>

\* Builder.Smeshing: b.stop != nil
Smeshing == started

\* variant of StartSmeshing without the test of b.stop
StartSmeshingAnyway(coinbase) ==
    /\ mutex = "free"
    /\ lifeRet' = [op |-> "StartSmeshing", err |-> {}]
    /\ coinbaseAccount' = coinbase
    /\ started' = TRUE
    /\ lifeDone' = FALSE
    /\ live' = startID(live, "life", signers)
    /\ loop' = [id \in NodeIDs |->
                  IF id \in signers
                  THEN [LoopIdle EXCEPT !.pc = "initialPost", !.ctx = "life"]
                  ELSE loop[id]]
    /\ caller' = RacedBy(caller)
    /\ UNCHANGED <<signers, mutex, deleteFiles, regossip, regossipRet,
                   accountLock, postStates, proverState, dbVars, selVars,
                   migVars, fetchVars, envVars>>

\* Builder.StartSmeshing
StartSmeshing(coinbase) ==
    /\ mutex = "free"
    /\ IF started
       THEN /\ lifeRet' = [op |-> "StartSmeshing", err |-> {ErrAlreadyStarted}]
            /\ UNCHANGED <<started, lifeDone, coinbaseAccount, live, loop>>
       ELSE /\ lifeRet' = [op |-> "StartSmeshing", err |-> {}]
            /\ coinbaseAccount' = coinbase
            /\ started' = TRUE
            /\ lifeDone' = FALSE
            /\ live' = startID(live, "life", signers)
            /\ loop' = [id \in NodeIDs |->
                          IF id \in signers
                          THEN [LoopIdle EXCEPT !.pc = "initialPost",
                                                !.ctx = "life"]
                          ELSE loop[id]]
    /\ caller' = IF started THEN caller ELSE RacedBy(caller)
    /\ UNCHANGED <<signers, mutex, deleteFiles, regossip, regossipRet,
                   accountLock, postStates, proverState, dbVars, selVars,
                   migVars, fetchVars, envVars>>

\* Builder.StopSmeshing up to eg.Wait(): the "not started" return, or
\* b.stop() after which the call waits for the goroutines of b.eg
StopSmeshingCancel(del) ==
    /\ mutex = "free"
    /\ IF ~started
       THEN /\ lifeRet' = [op |-> "StopSmeshing", err |-> {ErrNotStarted}]
            /\ UNCHANGED <<lifeDone, mutex, deleteFiles, loop>>
       ELSE /\ lifeDone' = TRUE
            /\ mutex' = "stop"
            /\ deleteFiles' = del
            /\ loop' = [id \in NodeIDs |-> OnCancel(loop[id])]
            /\ UNCHANGED lifeRet
    /\ UNCHANGED <<signers, started, live, coinbaseAccount, regossip,
                   regossipRet, accountLock, caller, postStates, proverState,
                   dbVars, selVars, migVars, fetchVars, envVars>>

\* variant of the error of StopSmeshing that leaves out the removals
resetErrOfResets(resetFail, removeFail) ==
    {<<"reset", id>> : id \in resetFail}

\* StopSmeshing: resetErr, the errors.Join of the failures of its loop over
\* the signers; a failed ResetState skips the RemoveChallenge of the identity
resetErr(resetFail, removeFail) ==
    {<<"reset", id>> : id \in resetFail}
        \cup {<<"remove", id>> : id \in removeFail \ resetFail}

\* variant of the return of StopSmeshing that resets whatever deleteFiles is
StopSmeshingWaitResets(resetFail, removeFail) ==
    /\ mutex = "stop"
    /\ \A k \in GKeys : live[k] = 0
    /\ mutex' = "free"
    /\ started' = FALSE
    /\ deleteFiles' = FALSE
    /\ postStates' = [id \in NodeIDs |->
                        IF id \in signers THEN "idle" ELSE postStates[id]]
    /\ proverState' = [id \in NodeIDs |->
                        IF id \in signers \ resetFail
                        THEN "idle" ELSE proverState[id]]
    /\ challenges' = {r \in challenges :
                        r.id \notin signers \ (resetFail \cup removeFail)}
    /\ lifeRet' = [op |-> "StopSmeshing",
                   err |-> resetErr(resetFail, removeFail)]
    /\ UNCHANGED <<signers, lifeDone, live, coinbaseAccount, regossip,
                   regossipRet, accountLock, caller, loop, initialPosts, dbRet,
                   selVars, migVars, fetchVars, envVars>>

\* Builder.StopSmeshing from the return of eg.Wait() on: every goroutine of
\* b.eg has returned.  With deleteFiles, for every signer: PostState idle,
\* nipostBuilder.ResetState (whose failure skips the removal), then
\* nipost.RemoveChallenge; resetFail and removeFail are the identities for
\* which the one and the other fail.
StopSmeshingWait(resetFail, removeFail) ==
    /\ mutex = "stop"
    /\ \A k \in GKeys : live[k] = 0
    /\ mutex' = "free"
    /\ started' = FALSE
    /\ deleteFiles' = FALSE
    /\ IF ~deleteFiles
       THEN /\ lifeRet' = [op |-> "StopSmeshing", err |-> {}]
            /\ UNCHANGED <<postStates, proverState, challenges>>
       ELSE /\ postStates' = [id \in NodeIDs |->
                                IF id \in signers THEN "idle" ELSE postStates[id]]
            /\ proverState' = [id \in NodeIDs |->
                                IF id \in signers \ resetFail
                                THEN "idle" ELSE proverState[id]]
            /\ challenges' = {r \in challenges :
                                r.id \notin signers \ (resetFail \cup removeFail)}
            /\ lifeRet' = [op |-> "StopSmeshing",
                           err |-> resetErr(resetFail, removeFail)]
    /\ UNCHANGED <<signers, lifeDone, live, coinbaseAccount, regossip,
                   regossipRet, accountLock, caller, loop, initialPosts, dbRet,
                   selVars, migVars, fetchVars, envVars>>

\* the regossip ticker loop of startID returns when its ctx is done
RegossipExit(id, ctx) ==
    /\ mutex # "dead"
    /\ live[<<id, "regossip", ctx>>] > 0
    /\ CtxDone(ctx)
    /\ live' = [live EXCEPT ![<<id, "regossip", ctx>>] = @ - 1]
    /\ UNCHANGED <<signers, started, lifeDone, mutex, deleteFiles,
                   coinbaseAccount, regossip, regossipRet, accountLock, caller,
                   lifeRet, postStates, proverState, loop, dbVars, selVars,
                   migVars, fetchVars, envVars>>

\* atxs.GetIDByEpochAndNodeID for the current epoch: the id of the ATX of id
\* published in it, if there is one
AtxOfCurrentEpoch(id) ==
    {a.ID : a \in {x \in lastAtx[id] : x.PublishEpoch = EpochAt(now)}}

\* what can fail in Regossip: the lookup of the ATX ("db", an error other than
\* sql.ErrNotFound), atxs.GetBlob ("blob"), publisher.Publish ("publish");
\* "checkpoint" is an ATX with an empty blob
RegossipFaults == {"none", "db", "blob", "checkpoint", "publish"}

\* Builder.Regossip: the error returned and the ATX published
Regossip(id, fault) ==
    IF fault = "db"
    THEN [id |-> id, err |-> "db", sent |-> Nil]
    ELSE IF AtxOfCurrentEpoch(id) = Nil \/ fault = "checkpoint"
    THEN [id |-> id, err |-> "none", sent |-> Nil]
    ELSE IF fault \in {"blob", "publish"}
    THEN [id |-> id, err |-> fault, sent |-> Nil]
    ELSE [id |-> id, err |-> "none", sent |-> AtxOfCurrentEpoch(id)]

\* variant of the ticker loop that returns the error of Regossip
AfterRegossipReturnsErr(lv, k, r) ==
    IF r.err # "none" THEN [lv EXCEPT ![k] = @ - 1] ELSE lv

\* the ticker loop of startID after Regossip returned r: an error is logged
\* and the loop goes on
AfterRegossip(lv, k, r) == lv

\* the regossip ticker loop of startID on a tick: Regossip is called
RegossipTick(id, ctx) ==
    /\ mutex # "dead"
    /\ live[<<id, "regossip", ctx>>] > 0
    /\ \E fault \in RegossipFaults :
        /\ regossipRet' = Regossip(id, fault)
        /\ live' = AfterRegossip(live, <<id, "regossip", ctx>>, regossipRet')
    /\ UNCHANGED <<signers, started, lifeDone, mutex, deleteFiles,
                   coinbaseAccount, regossip, accountLock, caller, lifeRet,
                   postStates, proverState, loop, dbVars, selVars, migVars,
                   fetchVars, envVars>>

\* Builder.Coinbase up to its read, accountLock held for reading
CoinbaseBegin ==
    /\ mutex # "dead"
    /\ accountLock = "free"
    /\ accountLock' = "rlocked"
    /\ caller' = NoCaller
    /\ UNCHANGED <<signers, started, lifeDone, mutex, deleteFiles, live,
                   coinbaseAccount, regossip, regossipRet, lifeRet, postStates,
                   proverState, loop, dbVars, selVars, migVars, fetchVars,
                   envVars>>

\* the values a read of b.coinbaseAccount can give: the value stored, or
\* after a write that ran at the same time any mix of old and new
CoinbaseRead(c) ==
    IF c.raced THEN Addresses \cup {"zero", "torn"} ELSE {coinbaseAccount}

\* Builder.Coinbase from its read on
CoinbaseEnd ==
    /\ mutex # "dead"
    /\ accountLock = "rlocked"
    /\ accountLock' = "free"
    /\ \E v \in CoinbaseRead(caller) : caller' = [caller EXCEPT !.ret = Some(v)]
    /\ UNCHANGED <<signers, started, lifeDone, mutex, deleteFiles, live,
                   coinbaseAccount, regossip, regossipRet, lifeRet, postStates,
                   proverState, loop, dbVars, selVars, migVars, fetchVars,
                   envVars>>

\* Builder.SetCoinbase up to its write, accountLock held for writing
SetCoinbaseBegin(rewardAddress) ==
    /\ mutex # "dead"
    /\ accountLock = "free"
    /\ accountLock' = "locked"
    /\ caller' = [NoCaller EXCEPT !.arg = rewardAddress]
    /\ UNCHANGED <<signers, started, lifeDone, mutex, deleteFiles, live,
                   coinbaseAccount, regossip, regossipRet, lifeRet, postStates,
                   proverState, loop, dbVars, selVars, migVars, fetchVars,
                   envVars>>

\* Builder.SetCoinbase from its write on; after a write by StartSmeshing
\* that ran at the same time the address stored is either one or a mix
SetCoinbaseEnd ==
    /\ mutex # "dead"
    /\ accountLock = "locked"
    /\ accountLock' = "free"
    /\ coinbaseAccount' \in IF caller.raced
                            THEN {caller.arg, coinbaseAccount, "torn"}
                            ELSE {caller.arg}
    /\ UNCHANGED <<signers, started, lifeDone, mutex, deleteFiles, live,
                   regossip, regossipRet, caller, lifeRet, postStates,
                   proverState, loop, dbVars, selVars, migVars, fetchVars,
                   envVars>>

(***************************************************************************)
(* The environment: clock, syncer, ATX store                                *)
(***************************************************************************)

\* the clock advances by one unit
TickUpTo(max) ==
    /\ now < max
    /\ now' = now + 1
    /\ loop' = [id \in NodeIDs |-> OnTick(loop[id], now + 1)]
    /\ UNCHANGED <<synced, lastAtx, network, lifeVars, proverState, dbVars,
                   selVars, migVars, fetchVars>>

\* the clock of a node whose Builder is made at genesis
Tick == TickUpTo(MaxTime)

\* the clock of a node whose Builder is made in the epoch its local database
\* was last written in
ResumeTick == TickUpTo(MaxResumeTime)

\* the syncer closes the channel of RegisterForATXSynced
Synced ==
    /\ ~synced
    /\ synced' = TRUE
    /\ loop' = [id \in NodeIDs |->
                  IF loop[id].pc = "waitSync" /\ loop[id].wake = "none"
                  THEN [loop[id] EXCEPT !.wake = "event"] ELSE loop[id]]
    /\ UNCHANGED <<now, lastAtx, network, lifeVars, proverState, dbVars,
                   selVars, migVars, fetchVars>>

(***************************************************************************)
(* The Builder: the control loop of an identity (Builder.run)               *)
(***************************************************************************)

\* the posts nipostBuilder.Proof can return for the zero challenge, as
\* nipost.Post records
Posts ==
    { [Nonce |-> n, Indices |-> <<n, n>>, Pow |-> n, NumUnits |-> 2,
       CommitmentATX |-> IF n = 1 THEN GoldenATXID ELSE "A", VRFNonce |-> 3]
        : n \in {1, 2} }

\* the loop record outside PublishActivationTx: the locals of the call are
\* gone
OutOfCall(l) ==
    [LoopIdle EXCEPT !.pc = l.pc, !.ctx = l.ctx, !.outcome = l.outcome,
                     !.cancelledAt = l.cancelledAt, !.lapsed = l.lapsed]

\* the loop record with the goroutine returned
Exited(l) == [OutOfCall(l) EXCEPT !.pc = "exited"]

\* the loop returns: one goroutine less in b.eg
RunReturns(id) ==
    live' = [live EXCEPT ![<<id, "run", loop[id].ctx>>] = @ - 1]

\* the records of a loop that arrives at a select on ctx.Done() and on a
\* layer or time of the clock
AtTimedWait(l, pc, until) ==
    {[l EXCEPT !.pc = pc, !.until = until, !.wake = w] :
        w \in Arrive(CtxDone(l.ctx), now >= until)}

\* the time at which layerClock.AwaitLayer(CurrentLayer().Add(1)) fires
NextLayerTime == LayerToTime(LayerAt(now) + 1)

\* the records of a loop that calls PublishActivationTx, up to the select on
\* the syncer's channel in BuildNIPostChallenge
AtPublish(l) ==
    {[OutOfCall(l) EXCEPT !.pc = "waitSync", !.wake = w, !.outcome = "none"] :
        w \in Arrive(CtxDone(l.ctx), synced)}

\* the loop record when PublishActivationTx returns the error err to run
Failed(l, err) == [l EXCEPT !.pc = "failed", !.wake = "none", !.err = err]

\* the error wrapped by a call whose derived context is done
CtxErrKind(l) == IF l.ctxErr = "canceled" THEN "canceled" ELSE "deadline"

\* the loop record when BuildNIPostChallenge returned ch: PublishActivationTx
\* derives the context with the deadline of ch and calls createAtx
AtCreateAtx(l, ch) ==
    [l EXCEPT !.pc = "buildNIPost", !.wake = "none", !.chal = Some(ch),
              !.ctxErr = IF CtxDone(l.ctx) THEN "canceled"
                         ELSE IF now >= Deadline(ch) THEN "deadline"
                         ELSE "none"]

\* log.Fatal: the process exits, and with it every goroutine; no call of the
\* Builder's API is served any more
Fatal ==
    /\ mutex' = "dead"
    /\ loop' = [i \in NodeIDs |->
                  IF loop[i].pc \in {"none", "exited"} THEN loop[i]
                  ELSE [loop[i] EXCEPT !.pc = "fatal", !.wake = "none"]]

\* variant of buildInitialPost that needs no initial post
NoInitialPostNeeded(id, dbErr) == TRUE

\* variant of buildInitialPost that builds an initial post in every call
InitialPostNeverReady(id, dbErr) == FALSE

\* buildInitialPost returns nil at once: the identity has an ATX, or an
\* initial post is stored
InitialPostReady(id, dbErr) ==
    lastAtx[id] # Nil \/ (~dbErr /\ InitialPost(initialPosts, id) # Nil)

\* nipostBuilder.Proof: the PostState of id while the proof is computed, and
\* once the call has returned
PostStateDuring(states, id) == [states EXCEPT ![id] = "proving"]
PostStateAfter(states, id) == [states EXCEPT ![id] = "idle"]

\* Builder.buildInitialPost up to the call of nipostBuilder.Proof, in which
\* the PostState of the identity is Proving; dbErr is a failure of
\* nipost.InitialPost other than "not found"
BuildInitialPost(id) ==
    LET l == loop[id] IN
    /\ l.pc = "initialPost"
    /\ \E dbErr \in BOOLEAN :
        IF InitialPostReady(id, dbErr)
        THEN \E n \in AtPublish(l) : loop' = [loop EXCEPT ![id] = n]
        ELSE IF dbErr
        THEN \E n \in AtTimedWait(l, "initialPostWait", NextLayerTime) :
                loop' = [loop EXCEPT ![id] = n]
        ELSE loop' = [loop EXCEPT ![id].pc = "proof"]
    /\ postStates' = IF loop'[id].pc = "proof"
                     THEN PostStateDuring(postStates, id)
                     ELSE postStates
    /\ UNCHANGED <<signers, started, lifeDone, mutex, deleteFiles, live,
                   coinbaseAccount, regossip, regossipRet, accountLock, caller,
                   lifeRet, proverState, dbVars, selVars, migVars, fetchVars,
                   envVars>>

\* Builder.buildInitialPost from the return of nipostBuilder.Proof on:
\* validator.Post, then nipost.AddInitialPost.  An invalid post is removed,
\* and the failure of that removal is fatal ("removeErr").
InitialPostProof(id) ==
    LET l == loop[id] IN
    /\ l.pc = "proof"
    /\ \E res \in {"proofErr", "invalid", "removeErr", "addErr", "ok"},
          post \in Posts :
        /\ CtxDone(l.ctx) => res = "proofErr"
        /\ IF res = "ok"
           THEN /\ initialPosts' = AddInitialPost(initialPosts, id, post)
                /\ \E n \in AtPublish(l) : loop' = [loop EXCEPT ![id] = n]
                /\ postStates' = PostStateAfter(postStates, id)
                /\ UNCHANGED mutex
           ELSE IF res = "removeErr"
           THEN /\ Fatal
                /\ UNCHANGED <<initialPosts, postStates>>
           ELSE /\ initialPosts' = IF res = "invalid"
                                   THEN RemoveInitialPost(initialPosts, id)
                                   ELSE initialPosts
                /\ \E n \in AtTimedWait(l, "initialPostWait", NextLayerTime) :
                        loop' = [loop EXCEPT ![id] = n]
                /\ postStates' = PostStateAfter(postStates, id)
                /\ UNCHANGED mutex
    /\ UNCHANGED <<signers, started, lifeDone, deleteFiles, live,
                   coinbaseAccount, regossip, regossipRet, accountLock, caller,
                   lifeRet, proverState, challenges, dbRet, selVars, migVars,
                   fetchVars, envVars>>

\* run: the select after a failed buildInitialPost
InitialPostWait(id) ==
    LET l == loop[id] IN
    /\ l.pc = "initialPostWait"
    /\ l.wake # "none"
    /\ IF l.wake = "done"
       THEN /\ loop' = [loop EXCEPT ![id] = Exited(l)]
            /\ RunReturns(id)
       ELSE /\ loop' = [loop EXCEPT ![id] =
                          [l EXCEPT !.pc = "initialPost", !.wake = "none"]]
            /\ UNCHANGED live
    /\ UNCHANGED <<signers, started, lifeDone, mutex, deleteFiles,
                   coinbaseAccount, regossip, regossipRet, accountLock, caller,
                   lifeRet, postStates, proverState, dbVars, selVars, migVars,
                   fetchVars, envVars>>

\* variant of the staleness test that finds no challenge stale
IsStaleNever(ch, current) == FALSE

\* variant of the staleness test that finds every challenge stale
IsStaleAlways(ch, current) == TRUE

\* variant of the staleness test that keeps a challenge with an initial post
IsStaleRegularOnly(ch, current) ==
    ch.PublishEpoch < current /\ ch.InitialPost = Nil

\* the case "challenge.PublishEpoch < current" of BuildNIPostChallenge
IsStale(ch, current) == ch.PublishEpoch < current

\* variant of the choice of the epoch that stays on the epoch whose round
\* has started
BuildEpochNoAdvance(current, prev, t) ==
    IF prev # Nil /\ Get(prev).PublishEpoch > current
    THEN Get(prev).PublishEpoch ELSE current

\* the epoch BuildNIPostChallenge builds on at time t: max(current, publish
\* epoch of the last ATX), or the next one when its poet round has started
BuildEpoch(current, prev, t) ==
    LET e == IF prev # Nil /\ Get(prev).PublishEpoch > current
             THEN Get(prev).PublishEpoch ELSE current
    IN  IF poetRoundStart(e) - t <= 0 THEN e + 1 ELSE e

\* variant of the initial challenge that leaves the initial post out
InitialChallengeNoPost(current, posAtx, post) ==
    [PublishEpoch |-> current + 1, Sequence |-> 0, PrevATXID |-> EmptyATXID,
     PositioningATX |-> posAtx, CommitmentATX |-> Some(post.CommitmentATX),
     InitialPost |-> Nil]

\* the initial ATX challenge built from the persisted initial post
InitialChallenge(current, posAtx, post) ==
    [PublishEpoch |-> current + 1, Sequence |-> 0, PrevATXID |-> EmptyATXID,
     PositioningATX |-> posAtx, CommitmentATX |-> Some(post.CommitmentATX),
     InitialPost |-> Some([Nonce |-> post.Nonce, Indices |-> post.Indices,
                           Pow |-> post.Pow])]

\* variant of the regular challenge that publishes in the epoch chosen
\* rather than in the one after it
RegularChallengeThisEpoch(current, posAtx, prevAtx) ==
    [PublishEpoch |-> current, Sequence |-> prevAtx.Sequence + 1,
     PrevATXID |-> prevAtx.ID, PositioningATX |-> posAtx,
     CommitmentATX |-> Nil, InitialPost |-> Nil]

\* the regular ATX challenge built on the last ATX of the identity
RegularChallenge(current, posAtx, prevAtx) ==
    [PublishEpoch |-> current + 1, Sequence |-> prevAtx.Sequence + 1,
     PrevATXID |-> prevAtx.ID, PositioningATX |-> posAtx,
     CommitmentATX |-> Nil, InitialPost |-> Nil]

\* BuildNIPostChallenge from its select on the syncer's channel up to the
\* wait for the poet round (or to getPositioningAtx when there is no wait);
\* fault is the call that fails in this execution, if any
WaitSync(id) ==
    LET l == loop[id]
        current == EpochAt(now)
        pre == Challenge(challenges, id)
        m == [l EXCEPT !.wake = "none", !.cur0 = current, !.pre = pre]
    IN
    /\ l.pc = "waitSync"
    /\ l.wake # "none"
    /\ IF l.wake = "done"
       THEN /\ loop' = [loop EXCEPT ![id] = Failed(l, "canceled")]
            /\ UNCHANGED <<postStates, proverState, challenges>>
       ELSE \E fault \in {"none", "db", "reset", "remove"} :
            IF fault = "db"
            THEN /\ loop' = [loop EXCEPT ![id] = Failed(m, "other")]
                 /\ UNCHANGED <<postStates, proverState, challenges>>
            ELSE IF pre # Nil /\ ~IsStale(Get(pre), current)
            THEN /\ fault = "none"
                 /\ loop' = [loop EXCEPT ![id] = AtCreateAtx(m, Get(pre))]
                 /\ UNCHANGED <<postStates, proverState, challenges>>
            ELSE
            /\ pre = Nil => fault = "none"
            /\ postStates' = IF pre # Nil
                             THEN [postStates EXCEPT ![id] = "idle"]
                             ELSE postStates
            /\ proverState' = IF pre # Nil /\ fault # "reset"
                              THEN [proverState EXCEPT ![id] = "idle"]
                              ELSE proverState
            /\ challenges' = IF pre # Nil /\ fault = "none"
                             THEN RemoveChallenge(challenges, id)
                             ELSE challenges
            /\ IF fault = "reset"
               THEN loop' = [loop EXCEPT ![id] = Failed(m, "other")]
               ELSE IF fault = "remove"
               THEN loop' = [loop EXCEPT ![id] =
                               Failed([m EXCEPT !.ops = <<"reset">>], "other")]
               ELSE
               LET cur == BuildEpoch(current, lastAtx[id], now)
                   did == IF pre # Nil THEN <<"reset", "remove">> ELSE <<>>
               IN \E jitter \in Jitters :
                  LET wait == buildNipostChallengeStartDeadline(
                                  poetRoundStart(cur), jitter)
                  IN IF wait - now > 0
                     THEN \E n \in AtTimedWait(
                                     [m EXCEPT !.cur = cur,
                                               !.prev = lastAtx[id],
                                               !.ops = Append(did, "wait")],
                                     "waitRound", wait) :
                            loop' = [loop EXCEPT ![id] = n]
                     ELSE loop' = [loop EXCEPT ![id] =
                                     [m EXCEPT !.cur = cur, !.ops = did,
                                               !.prev = lastAtx[id],
                                               !.pc = "posAtx"]]
    /\ UNCHANGED <<signers, started, lifeDone, mutex, deleteFiles, live,
                   coinbaseAccount, regossip, regossipRet, accountLock, caller,
                   lifeRet, initialPosts, dbRet, selVars, migVars, fetchVars,
                   envVars>>

\* BuildNIPostChallenge: the select that waits for the start of the round
WaitRound(id) ==
    LET l == loop[id] IN
    /\ l.pc = "waitRound"
    /\ l.wake # "none"
    /\ loop' = [loop EXCEPT ![id] =
                  IF l.wake = "done" THEN Failed(l, "canceled")
                  ELSE [l EXCEPT !.pc = "posAtx", !.wake = "none"]]
    /\ UNCHANGED <<lifeVars, proverState, dbVars, selVars, migVars, fetchVars,
                   envVars>>

\* the ATX findFullyValidHighTickAtx finds in the store of a node whose
\* network has no smesher but the node's own identities: the last ATX of the
\* identity, or none
HighTickAtx(id) ==
    IF lastAtx[id] = Nil THEN Nil ELSE Some(Get(lastAtx[id]).ID)

\* variant of getPositioningAtx without the golden ATX
getPositioningAtxAsFound(found) ==
    IF found = Nil THEN EmptyATXID ELSE Get(found)

\* Builder.getPositioningAtx for what findFullyValidHighTickAtx found: the
\* golden ATX when it found none
getPositioningAtx(found) == IF found = Nil THEN GoldenATXID ELSE Get(found)

\* BuildNIPostChallenge: the call of getPositioningAtx, which returns the
\* positioning ATX or an error (the cancellation error when ctx is done)
PositioningAtx(id) ==
    LET l == loop[id] IN
    /\ l.pc = "posAtx"
    /\ IF CtxDone(l.ctx)
       THEN loop' = [loop EXCEPT ![id] = Failed(l, "canceled")]
       ELSE \E res \in {"err", getPositioningAtx(HighTickAtx(id))} :
            loop' = [loop EXCEPT ![id] =
                       IF res = "err" THEN Failed(l, "other")
                       ELSE [l EXCEPT !.pc = "assemble", !.posAtx = res,
                                      !.ops = Append(l.ops, "select")]]
    /\ UNCHANGED <<lifeVars, proverState, dbVars, selVars, migVars, fetchVars,
                   envVars>>

\* variant of BuildNIPostChallenge that does not look at AddChallenge's error
AddFailedIgnored(fault, r) == FALSE

\* BuildNIPostChallenge: nipost.AddChallenge returned an error, by a failure
\* of the database (fault) or by its primary key (r)
AddFailed(fault, r) == fault = "db" \/ r.err

\* BuildNIPostChallenge from the second GetLastAtx on: the initial challenge
\* after validator.Post of the persisted initial post, or the regular one;
\* then nipost.AddChallenge.  fault is the call that fails, if any; a
\* validation can also fail with the cancellation error once ctx is done.
\* An invalid initial post is removed, and the failure of that removal is
\* fatal ("removeErr").
AssembleChallenge(id) ==
    LET l == loop[id]
        post == InitialPost(initialPosts, id)
    IN
    /\ l.pc = "assemble"
    /\ \E fault \in {"none", "db", "invalid", "canceled", "removeErr"} :
        /\ fault = "canceled" => CtxDone(l.ctx)
        /\ IF lastAtx[id] = Nil /\ post = Nil
           THEN /\ fault = "none"
                /\ loop' = [loop EXCEPT ![id] = Failed(l, "other")]
                /\ UNCHANGED <<challenges, initialPosts, mutex>>
           ELSE IF lastAtx[id] = Nil /\ fault = "removeErr"
           THEN /\ Fatal
                /\ UNCHANGED <<challenges, initialPosts>>
           ELSE IF lastAtx[id] = Nil /\ fault \in {"invalid", "canceled"}
           THEN /\ initialPosts' = RemoveInitialPost(initialPosts, id)
                /\ loop' = [loop EXCEPT ![id] =
                              Failed([l EXCEPT !.ops = l.ops \o
                                        <<"validate", "removePost">>],
                                     IF fault = "canceled" THEN "canceled"
                                     ELSE "other")]
                /\ UNCHANGED <<challenges, mutex>>
           ELSE
           LET ch == IF lastAtx[id] = Nil
                     THEN InitialChallenge(l.cur, l.posAtx, Get(post))
                     ELSE RegularChallenge(l.cur, l.posAtx, Get(lastAtx[id]))
               did == IF lastAtx[id] = Nil
                      THEN Append(l.ops, "validate") ELSE l.ops
               r == AddChallenge(challenges, id, ch)
           IN
           /\ fault \in {"none", "db"}
           /\ UNCHANGED <<initialPosts, mutex>>
           /\ challenges' = IF fault = "db" THEN challenges ELSE r.table
           /\ IF AddFailed(fault, r)
              THEN loop' = [loop EXCEPT ![id] =
                              Failed([l EXCEPT !.ops = did], "other")]
              ELSE loop' = [loop EXCEPT ![id] =
                              AtCreateAtx([l EXCEPT !.ops =
                                             Append(did, "add")], ch)]
    /\ UNCHANGED <<signers, started, lifeDone, deleteFiles, live,
                   coinbaseAccount, regossip, regossipRet, accountLock, caller,
                   lifeRet, postStates, proverState, dbRet, selVars, migVars,
                   fetchVars, envVars>>

\* the state nipostBuilder.BuildNIPost returns
NIPostState == [NIPost |-> "nipost", NumUnits |-> 2, VRFNonce |-> 3]

\* ActivationTx.ID, a function of the signed content
ATXID(id, ch) == id \o "-" \o ToString(ch.PublishEpoch)

\* createAtx: nipostBuilder.BuildNIPost under the derived context, up to the
\* select that waits for the publication epoch
BuildNIPost(id) ==
    LET l == loop[id]
        ch == Get(l.chal)
        until == LayerToTime(FirstLayer(ch.PublishEpoch))
    IN
    /\ l.pc = "buildNIPost"
    /\ \E res \in {"ctx", "ok", "unstable", "expired", "other"} :
        /\ (l.ctxErr # "none") <=> (res = "ctx")
        /\ proverState' = IF res = "ctx" THEN proverState
                          ELSE [proverState EXCEPT ![id] = "inprogress"]
        /\ LET m == [l EXCEPT !.nProve = @ + 1, !.pre = Nil, !.ops = <<>>,
                               !.cur0 = 0, !.cur = 0, !.posAtx = EmptyATXID]
           IN
           IF res = "ctx"
           THEN loop' = [loop EXCEPT ![id] = Failed(m, CtxErrKind(l))]
           ELSE IF res # "ok"
           THEN loop' = [loop EXCEPT ![id] = Failed(m, res)]
           ELSE \E w \in Arrive(FALSE, now >= until) :
                loop' = [loop EXCEPT ![id] =
                           [m EXCEPT !.pc = "waitPublish", !.until = until,
                                     !.wake = w,
                                     !.nipost = Some(NIPostState)]]
    /\ UNCHANGED <<lifeVars, dbVars, selVars, migVars, fetchVars, envVars>>

\* variant of the error that reports every passed publish epoch as expired
ExpiredErrAlways(ch) == "expired"

\* createAtx: the error for a publish epoch that has passed, which is not
\* ErrATXChallengeExpired when the challenge carries an initial post
ExpiredErr(ch) == IF ch.InitialPost # Nil THEN "other" ELSE "expired"

\* variant of createAtx that puts the VRF nonce into every ATX
AtxNonceAlways(ch, st, old) == Some(st.VRFNonce)

\* createAtx: the VRF nonce of the ATX.  old is what atxs.VRFNonce gave for
\* the identity: not read for a challenge without previous ATX, an error, or
\* a nonce that is the same as the one of the post or differs from it
AtxNonce(ch, st, old) ==
    IF ch.PrevATXID = EmptyATXID \/ old = "differs"
    THEN Some(st.VRFNonce) ELSE Nil

\* createAtx from the select on the publication epoch on: the check that
\* the publish epoch has not passed, the VRF nonce, NewActivationTx and
\* SignAndFinalizeAtx.  old is what atxs.VRFNonce answers for a regular ATX.
WaitPublish(id) ==
    LET l == loop[id]
        ch == Get(l.chal)
        st == Get(l.nipost)
    IN
    /\ l.pc = "waitPublish"
    /\ l.wake # "none"
    /\ IF l.wake = "done"
       THEN loop' = [loop EXCEPT ![id] = Failed(l, CtxErrKind(l))]
       ELSE IF ch.PublishEpoch < EpochAt(now)
       THEN loop' = [loop EXCEPT ![id] =
                       Failed([l EXCEPT !.lapsed = @ \/ ch.InitialPost # Nil],
                              ExpiredErr(ch))]
       ELSE \E old \in {"unread", "err", "same", "differs"},
               signErr \in BOOLEAN :
            /\ accountLock # "locked"
            /\ old = "unread" <=> ch.PrevATXID = EmptyATXID
            /\ LET atx == [Challenge |-> ch, Coinbase |-> coinbaseAccount,
                           NIPost |-> st.NIPost, NumUnits |-> st.NumUnits,
                           VRFNonce |-> AtxNonce(ch, st, old),
                           NodeID |-> IF ch.PrevATXID = EmptyATXID
                                      THEN Some(id) ELSE Nil,
                           SmesherID |-> id, ID |-> ATXID(id, ch)]
               IN loop' = [loop EXCEPT ![id] =
                    IF signErr THEN Failed([l EXCEPT !.oldNonce = old], "other")
                    ELSE [l EXCEPT !.pc = "broadcast", !.wake = "none",
                                   !.atx = Some(atx), !.nBuilt = @ + 1,
                                   !.oldNonce = old]]
    /\ UNCHANGED <<lifeVars, proverState, dbVars, selVars, migVars, fetchVars,
                   envVars>>

\* variant of the retry that gives up after a failed broadcast
BroadcastRetryGivesUp == "failed"

\* variant of the retry that goes back to the construction of the proof
BroadcastRetryRebuilds == "buildNIPost"

\* PublishActivationTx: where the loop "try again" resumes after a failed
\* broadcast
BroadcastRetryPc == "broadcast"

\* PublishActivationTx: one turn of the broadcast loop, and on success
\* nipostBuilder.ResetState and nipost.RemoveChallenge.  res is the outcome
\* of publisher.Publish, which fails once the derived context is done.
Broadcast(id) ==
    LET l == loop[id]
        m == [l EXCEPT !.sent = @ \cup l.atx]
    IN
    /\ l.pc = "broadcast"
    /\ \E res \in {"ok", "fail"}, fault \in {"none", "reset", "remove"} :
        /\ l.ctxErr # "none" => res = "fail"
        /\ res = "fail" => fault = "none"
        /\ IF res = "fail"
           THEN /\ IF l.ctxErr # "none"
                   THEN loop' = [loop EXCEPT ![id] = Failed(m, CtxErrKind(l))]
                   ELSE /\ l.nBcast < MaxBroadcasts
                        /\ loop' = [loop EXCEPT ![id] =
                                      [m EXCEPT !.pc = BroadcastRetryPc,
                                                !.nBcast = @ + 1]]
                /\ UNCHANGED <<network, proverState, challenges>>
           ELSE /\ network' = [network EXCEPT ![id] = l.atx]
                /\ proverState' = IF fault = "reset" THEN proverState
                                  ELSE [proverState EXCEPT ![id] = "idle"]
                /\ challenges' = IF fault = "none"
                                 THEN RemoveChallenge(challenges, id)
                                 ELSE challenges
                /\ IF fault = "none"
                   THEN \E n \in AtPublish(m) : loop' = [loop EXCEPT ![id] = n]
                   ELSE loop' = [loop EXCEPT ![id] = Failed(m, "other")]
    /\ UNCHANGED <<lifeVars, initialPosts, dbRet, selVars, migVars, fetchVars,
                   now, synced, lastAtx>>

\* variant of the classification that knows no cancellation
IsCanceledNever(err) == FALSE

\* variant of the classification that takes an expired deadline for a
\* cancellation
IsCanceledOrDeadline(err) == err \in {"canceled", "deadline"}

\* run: errors.Is(err, context.Canceled)
IsCanceled(err) == err = "canceled"

\* variant of the classification that knows no expired challenge
IsExpiredNever(err) == FALSE

\* variant of the classification that takes an unstable poet service for an
\* expired challenge
IsExpiredOrUnstable(err) == err \in {"expired", "unstable"}

\* run: errors.Is(err, ErrATXChallengeExpired)
IsExpired(err) == err = "expired"

\* run: errors.Is(err, ErrPoetServiceUnstable)
IsUnstable(err) == err = "unstable"

\* Builder.poetRetryInterval
poetRetryInterval == 1

\* run: the classification of the error PublishActivationTx returned.
\* Canceled: return.  ErrATXChallengeExpired: ResetState and RemoveChallenge,
\* whose errors are only logged (logged), then a layer's wait.
\* ErrPoetServiceUnstable:
\* the retry interval.  Anything else: a layer's wait.
RunFailed(id) ==
    LET l == loop[id] IN
    /\ l.pc = "failed"
    /\ IF IsCanceled(l.err)
       THEN /\ loop' = [loop EXCEPT ![id] =
                          Exited([l EXCEPT !.outcome = "canceled"])]
            /\ RunReturns(id)
            /\ UNCHANGED <<proverState, challenges>>
       ELSE
       /\ UNCHANGED live
       /\ IF IsExpired(l.err)
          THEN \E resetOk \in BOOLEAN, removeOk \in BOOLEAN :
               /\ proverState' = IF resetOk
                                 THEN [proverState EXCEPT ![id] = "idle"]
                                 ELSE proverState
               /\ challenges' = IF removeOk
                                THEN RemoveChallenge(challenges, id)
                                ELSE challenges
               /\ \E n \in AtTimedWait(
                            [OutOfCall([l EXCEPT !.outcome = "expired"])
                                EXCEPT !.logged =
                                    {e \in {"reset", "remove"} :
                                        \/ e = "reset" /\ ~resetOk
                                        \/ e = "remove" /\ ~removeOk}],
                            "retryWait", NextLayerTime) :
                      loop' = [loop EXCEPT ![id] = n]
          ELSE /\ UNCHANGED <<proverState, challenges>>
               /\ IF IsUnstable(l.err)
                  THEN \E n \in AtTimedWait(OutOfCall([l EXCEPT !.outcome = "unstable"]),
                                   "retryInterval", now + poetRetryInterval) :
                         loop' = [loop EXCEPT ![id] = n]
                  ELSE \E n \in AtTimedWait(OutOfCall([l EXCEPT !.outcome = "unknown"]),
                                            "retryWait", NextLayerTime) :
                         loop' = [loop EXCEPT ![id] = n]
    /\ UNCHANGED <<signers, started, lifeDone, mutex, deleteFiles,
                   coinbaseAccount, regossip, regossipRet, accountLock, caller,
                   lifeRet, postStates, initialPosts, dbRet, selVars, migVars,
                   fetchVars, envVars>>

\* run: the select after a failed PublishActivationTx
RetryWait(id) ==
    LET l == loop[id] IN
    /\ l.pc \in {"retryWait", "retryInterval"}
    /\ l.wake # "none"
    /\ IF l.wake = "done"
       THEN /\ loop' = [loop EXCEPT ![id] = Exited(l)]
            /\ RunReturns(id)
       ELSE /\ \E n \in AtPublish(l) : loop' = [loop EXCEPT ![id] = n]
            /\ UNCHANGED live
    /\ UNCHANGED <<signers, started, lifeDone, mutex, deleteFiles,
                   coinbaseAccount, regossip, regossipRet, accountLock, caller,
                   lifeRet, postStates, proverState, dbVars, selVars, migVars,
                   fetchVars, envVars>>

\* the node stores the ATX of id that it heard on the network, which becomes
\* the last ATX of the identity
AtxStored(id) ==
    /\ \E atx \in network[id] :
        /\ IF lastAtx[id] = Nil THEN TRUE
           ELSE Get(lastAtx[id]).PublishEpoch < atx.Challenge.PublishEpoch
        /\ lastAtx' = [lastAtx EXCEPT ![id] =
                         Some([ID |-> atx.ID,
                               PublishEpoch |-> atx.Challenge.PublishEpoch,
                               Sequence |-> atx.Challenge.Sequence])]
    /\ UNCHANGED <<now, synced, network, lifeVars, proverState, loop, dbVars,
                   selVars, migVars, fetchVars>>

(***************************************************************************)
(* DataFetch: the ATXs of an epoch, fetched from one peer per call          *)
(***************************************************************************)

\* the peers of the node
Peers == {"p1", "p2"}

\* p2p.NoPeer
NoPeer == "none"

\* the epochs GetEpochATXs is called for
MaxFetchEpoch == 1

FetchEpochs == 0 .. MaxFetchEpoch

\* the concurrent callers of GetEpochATXs
FetchCalls == {"c1", "c2"}

\* fetcher.SelectBestShuffled: any order of any of the peers, or none
ShuffledPeers ==
    {<<>>} \cup {<<p>> : p \in Peers}
           \cup {pq \in Peers \X Peers : pq[1] # pq[2]}

\* a caller that is not inside GetEpochATXs and has not called it yet; peers
\* is kept of a call that returned without picking one of them
FetchNoCall ==
    [pc |-> "idle", epoch |-> 0, peers |-> <<>>, peer |-> NoPeer,
     ret |-> "none", asked |-> FALSE]

\* NewDataFetch: atxSynced is an empty map
FetchIdle ==
    /\ atxSynced = [e \in FetchEpochs |-> Nil]
    /\ fetchCall = [c \in FetchCalls |-> FetchNoCall]

\* no goroutine of the process has panicked
NoPanic == \A c \in FetchCalls : fetchCall[c].pc # "panic"

\* the key epoch-1 of pickAtxPeer: an EpochID is unsigned, so for epoch 0
\* it is the largest one, which is none of FetchEpochs (-1 stands for it)
PrevEpoch(epoch) == IF epoch = 0 THEN -1 ELSE epoch - 1

\* variant of pickAtxPeer that takes the first peer, recorded or not
pickAtxPeerFirst(s, epoch, peers) ==
    [synced |-> IF s[epoch] # Nil THEN s
                ELSE [e \in FetchEpochs |->
                        IF e = epoch THEN Some({})
                        ELSE IF e = PrevEpoch(epoch) THEN Nil ELSE s[e]],
     peer |-> peers[1]]

\* pickAtxPeer, the body under d.mu: the map after the call, and the first of
\* peers that is not recorded for epoch, or NoPeer
pickAtxPeer(s, epoch, peers) ==
    LET s1 == IF s[epoch] # Nil THEN s
              ELSE [e \in FetchEpochs |->
                      IF e = epoch THEN Some({})
                      ELSE IF e = PrevEpoch(epoch) THEN Nil ELSE s[e]]
        free == {i \in 1 .. Len(peers) : peers[i] \notin Get(s1[epoch])}
    IN  [synced |-> s1,
         peer |-> IF free = {} THEN NoPeer
                  ELSE peers[CHOOSE i \in free : \A j \in free : i <= j]]

\* updateAtxPeer, the body under d.mu: d.atxSynced[epoch][peer] = struct{}{}
\* panics when the map has no entry for epoch (assignment to an entry of the
\* nil map the lookup gave)
updateAtxPeer(s, epoch, peer) ==
    IF s[epoch] = Nil THEN [panic |-> TRUE, synced |-> s]
    ELSE [panic |-> FALSE,
          synced |-> [s EXCEPT ![epoch] = Some(Get(@) \cup {peer})]]

\* GetEpochATXs up to the call of fetcher.PeerEpochInfo: the peers selected,
\* errNoPeers when there are none, pickAtxPeer, and nil when it gave NoPeer
GetEpochATXs(c, epoch, peers) ==
    LET r == pickAtxPeer(atxSynced, epoch, peers)
        call == [FetchNoCall EXCEPT !.epoch = epoch]
    IN
    /\ NoPanic
    /\ fetchCall[c].pc \in {"idle", "done"}
    /\ IF Len(peers) = 0
       THEN /\ fetchCall' = [fetchCall EXCEPT ![c] =
                    [call EXCEPT !.pc = "done", !.ret = "errNoPeers"]]
            /\ UNCHANGED atxSynced
       ELSE /\ atxSynced' = r.synced
            /\ fetchCall' = [fetchCall EXCEPT ![c] =
                    IF r.peer = NoPeer
                    THEN [call EXCEPT !.pc = "done", !.ret = "nil",
                                      !.peers = peers]
                    ELSE [call EXCEPT !.pc = "request", !.peer = r.peer]]
    /\ UNCHANGED <<dbVars, selVars, lifeVars, proverState, loop, envVars,
                   migVars>>

\* GetEpochATXs: fetcher.PeerEpochInfo of the peer picked returns an error,
\* no ATX ids, or some
PeerEpochInfo(c) ==
    /\ NoPanic
    /\ fetchCall[c].pc = "request"
    /\ \E res \in {"err", "empty", "ids"} :
        fetchCall' = [fetchCall EXCEPT ![c] =
            IF res = "err"
            THEN [@ EXCEPT !.pc = "done", !.ret = "errInfo", !.asked = TRUE]
            ELSE IF res = "empty"
            THEN [@ EXCEPT !.pc = "done", !.ret = "nil", !.asked = TRUE]
            ELSE [@ EXCEPT !.pc = "update", !.asked = TRUE]]
    /\ UNCHANGED <<atxSynced, dbVars, selVars, lifeVars, proverState, loop,
                   envVars, migVars>>

\* GetEpochATXs from updateAtxPeer on: the peer is recorded, its hashes are
\* registered and the missing ATXs are fetched, with or without an error
UpdateAtxPeer(c) ==
    LET call == fetchCall[c]
        r == updateAtxPeer(atxSynced, call.epoch, call.peer)
    IN
    /\ NoPanic
    /\ call.pc = "update"
    /\ atxSynced' = r.synced
    /\ IF r.panic
       THEN fetchCall' = [fetchCall EXCEPT ![c] = [call EXCEPT !.pc = "panic"]]
       ELSE \E getErr \in BOOLEAN :
            fetchCall' = [fetchCall EXCEPT ![c] =
                [call EXCEPT !.pc = "done",
                             !.ret = IF getErr THEN "errAtxs" ELSE "nil"]]
    /\ UNCHANGED <<dbVars, selVars, lifeVars, proverState, loop, envVars,
                   migVars>>

MigNoCall == [done |-> FALSE, err |-> FALSE]

\* a database the migration was applied to, no state file left
MigIdle ==
    /\ builderState = Nil
    /\ poetRegistrations = {}
    /\ poetProofRefs = [id \in NodeIDs |-> Nil]
    /\ nipostRows = {}
    /\ migRet = MigNoCall

(***************************************************************************)
(* Specifications                                                           *)
(***************************************************************************)

\* the Builder as constructed and never started, the environment at rest
BuilderIdle == BuilderInit /\ regossip = FALSE /\ EnvInit

SpecDBInit == DbInit /\ SelIdle /\ BuilderIdle /\ MigIdle /\ FetchIdle

SpecDBNext ==
    DbNext /\ UNCHANGED <<selVars, migVars, fetchVars, lifeVars, proverState,
                          loop, envVars>>

SpecDB == SpecDBInit /\ [][SpecDBNext]_vars

\* the identity whose control loop Spec follows
Smesher == "n1"

SpecInit == BuilderIdle /\ DbInit /\ SelIdle /\ MigIdle /\ FetchIdle

\* the steps of Builder.run and of the calls it makes
RunNext(id) ==
    \/ BuildInitialPost(id)
    \/ InitialPostProof(id)
    \/ InitialPostWait(id)
    \/ WaitSync(id)
    \/ WaitRound(id)
    \/ PositioningAtx(id)
    \/ AssembleChallenge(id)
    \/ BuildNIPost(id)
    \/ WaitPublish(id)
    \/ Broadcast(id)
    \/ RunFailed(id)
    \/ RetryWait(id)

SpecNext ==
    \/ Register(Smesher)
    \/ StartSmeshing("cb1")
    \/ \E del \in BOOLEAN : StopSmeshingCancel(del)
    \/ \E resetFail \in SUBSET signers, removeFail \in SUBSET signers :
            StopSmeshingWait(resetFail, removeFail)
    \/ RunNext(Smesher)
    \/ Tick
    \/ Synced
    \/ AtxStored(Smesher)

Spec == SpecInit /\ [][SpecNext]_vars

\* the challenge an earlier run of the node persisted for Smesher: its
\* initial challenge, built in epoch 0 from the first of the posts
ResumedPost == CHOOSE post \in Posts : post.CommitmentATX = GoldenATXID

ResumedChallenge == InitialChallenge(0, GoldenATXID, ResumedPost)

\* what findFullyValidHighTickAtx returned, as getPositioningAtx tests it:
\* no id when the error is sql.ErrNotFound
SelFound == IF selRet.err = "notfound" THEN Nil ELSE Some(selRet.id)

\* BuildNIPostChallenge of Smesher around its call of getPositioningAtx, for
\* what findFullyValidHighTickAtx returned: the golden ATX for ErrNotFound,
\* the error for any other error, else the id found; with a positioning ATX
\* the initial challenge is built and persisted
SelPositioningAtx ==
    /\ selPc = "done"
    /\ selPc' = "returned"
    /\ IF selRet.err \in {"none", "notfound"}
       THEN challenges' =
                AddChallenge(challenges, Smesher,
                             InitialChallenge(0, getPositioningAtx(SelFound),
                                              ResumedPost)).table
       ELSE UNCHANGED challenges
    /\ UNCHANGED <<initialPosts, dbRet, migVars, fetchVars, selStore, selValid,
                   selCtxDone, rejectedAtxs, selCand, selRet, selVerified,
                   lifeVars, proverState, loop, envVars>>

SpecSelInit ==
    SelInit /\ DbInit /\ BuilderIdle /\ MigIdle /\ FetchIdle

SpecSelNext ==
    \/ SelNext /\ UNCHANGED <<dbVars, lifeVars, proverState, loop, envVars>>
    \/ SelPositioningAtx

SpecSel == SpecSelInit /\ [][SpecSelNext]_vars

\* NewBuilder in a node restarted in the publish epoch of that challenge,
\* over the local database the earlier run left
SpecResumeInit ==
    /\ BuilderInit
    /\ MigIdle
    /\ FetchIdle
    /\ regossip = FALSE
    /\ synced = FALSE
    /\ lastAtx = [id \in NodeIDs |-> Nil]
    /\ network = [id \in NodeIDs |-> Nil]
    /\ now \in {t \in 0 .. MaxResumeTime :
                    EpochAt(t) = ResumedChallenge.PublishEpoch}
    /\ challenges = AddChallenge({}, Smesher, ResumedChallenge).table
    /\ initialPosts = AddInitialPost({}, Smesher, ResumedPost)
    /\ dbRet = DbNoCall
    /\ SelIdle

\* the node is started once and left alone: no StopSmeshing.  The steps of
\* run are those of RunNext but for the construction of the initial post,
\* which is persisted from the start.
SpecResumeNext ==
    \/ Register(Smesher)
    \/ StartSmeshing("cb1")
    \/ BuildInitialPost(Smesher)
    \/ InitialPostWait(Smesher)
    \/ WaitSync(Smesher)
    \/ WaitRound(Smesher)
    \/ PositioningAtx(Smesher)
    \/ AssembleChallenge(Smesher)
    \/ BuildNIPost(Smesher)
    \/ WaitPublish(Smesher)
    \/ Broadcast(Smesher)
    \/ RunFailed(Smesher)
    \/ RetryWait(Smesher)
    \/ ResumeTick
    \/ Synced
    \/ AtxStored(Smesher)

SpecResume == SpecResumeInit /\ [][SpecResumeNext]_vars

\* the local database an earlier run of the node left (resumed): for every
\* identity its initial post and its initial challenge, with the proving for
\* that challenge in progress in the nipostBuilder; or a new database
ResumedDB(resumed) ==
    /\ challenges = IF resumed
                    THEN {ChallengeRow(id, ResumedChallenge) : id \in NodeIDs}
                    ELSE {}
    /\ initialPosts = IF resumed
                      THEN {[id |-> id, post |-> ResumedPost] : id \in NodeIDs}
                      ELSE {}
    /\ proverState = [id \in NodeIDs |->
                        IF resumed THEN "inprogress" ELSE "idle"]
    /\ dbRet = DbNoCall

SpecLifeInit ==
    /\ NewBuilder
    /\ MigIdle
    /\ FetchIdle
    /\ regossip \in BOOLEAN
    /\ EnvInit
    /\ \E resumed \in BOOLEAN : ResumedDB(resumed)
    /\ SelIdle

\* with the node not synced and the clock at rest, the steps a control loop
\* can take: the initial post, then the select on the syncer's channel
SpecLifeNext ==
    \/ \E id \in NodeIDs : Register(id)
    \/ \E coinbase \in Addresses : StartSmeshing(coinbase)
    \/ \E del \in BOOLEAN : StopSmeshingCancel(del)
    \/ \E resetFail \in SUBSET signers, removeFail \in SUBSET signers :
            StopSmeshingWait(resetFail, removeFail)
    \/ \E id \in NodeIDs :
        \/ BuildInitialPost(id)
        \/ InitialPostProof(id)
        \/ InitialPostWait(id)
        \/ WaitSync(id)
        \/ RunFailed(id)
    \/ \E id \in NodeIDs, ctx \in {"life", "parent"} : RegossipExit(id, ctx)

SpecLife == SpecLifeInit /\ [][SpecLifeNext]_vars

\* the steps of the control loop of id up to its select on the syncer's
\* channel
RunToSync(id) ==
    \/ BuildInitialPost(id)
    \/ InitialPostProof(id)
    \/ InitialPostWait(id)
    \/ WaitSync(id)
    \/ RunFailed(id)

\* the ATX store an earlier run of the node left: no ATX of Smesher, or one
\* published in the epoch e
StoredAtx(e) == [ID |-> "A", PublishEpoch |-> e, Sequence |-> 0]

\* a Builder with a re-gossip interval on a node that is not synced
SpecGossipInit ==
    /\ BuilderInit
    /\ MigIdle
    /\ FetchIdle
    /\ regossip = TRUE
    /\ DbInit
    /\ SelIdle
    /\ now = 0
    /\ synced = FALSE
    /\ network = [id \in NodeIDs |-> Nil]
    /\ \E last \in {Nil} \cup {Some(StoredAtx(e)) : e \in 0..1} :
            lastAtx = [id \in NodeIDs |-> IF id = Smesher THEN last ELSE Nil]

SpecGossipNext ==
    \/ Register(Smesher)
    \/ StartSmeshing("cb1")
    \/ \E del \in BOOLEAN : StopSmeshingCancel(del)
    \/ \E resetFail \in SUBSET signers, removeFail \in SUBSET signers :
            StopSmeshingWait(resetFail, removeFail)
    \/ RunToSync(Smesher)
    \/ Tick
    \/ \E ctx \in {"life", "parent"} :
        \/ RegossipTick(Smesher, ctx)
        \/ RegossipExit(Smesher, ctx)

SpecGossip == SpecGossipInit /\ [][SpecGossipNext]_vars

\* a synced node whose database holds the initial post of Smesher and may
\* hold an ATX of Smesher, of an epoch at or ahead of the node's clock
SpecEpochInit ==
    /\ BuilderInit
    /\ MigIdle
    /\ FetchIdle
    /\ regossip = FALSE
    /\ challenges = {}
    /\ initialPosts = AddInitialPost({}, Smesher, ResumedPost)
    /\ dbRet = DbNoCall
    /\ SelIdle
    /\ now = 0
    /\ synced = TRUE
    /\ network = [id \in NodeIDs |-> Nil]
    /\ \E last \in {Nil} \cup {Some(StoredAtx(e)) : e \in 0..2} :
            lastAtx = [id \in NodeIDs |-> IF id = Smesher THEN last ELSE Nil]

\* the control loop up to the return of BuildNIPostChallenge
SpecEpochNext ==
    \/ Register(Smesher)
    \/ StartSmeshing("cb1")
    \/ BuildInitialPost(Smesher)
    \/ InitialPostWait(Smesher)
    \/ WaitSync(Smesher)
    \/ WaitRound(Smesher)
    \/ PositioningAtx(Smesher)
    \/ AssembleChallenge(Smesher)
    \/ RunFailed(Smesher)
    \/ RetryWait(Smesher)
    \/ Tick

SpecEpoch == SpecEpochInit /\ [][SpecEpochNext]_vars

\* a Builder whose coinbase is read and set from outside while it is started
\* and stopped
SpecCoinbaseNext ==
    \/ Register(Smesher)
    \/ \E coinbase \in Addresses : StartSmeshing(coinbase)
    \/ \E del \in BOOLEAN : StopSmeshingCancel(del)
    \/ \E resetFail \in SUBSET signers, removeFail \in SUBSET signers :
            StopSmeshingWait(resetFail, removeFail)
    \/ RunToSync(Smesher)
    \/ CoinbaseBegin
    \/ CoinbaseEnd
    \/ \E rewardAddress \in Addresses : SetCoinbaseBegin(rewardAddress)
    \/ SetCoinbaseEnd

SpecCoinbase == SpecInit /\ [][SpecCoinbaseNext]_vars

(***************************************************************************)
(* Migration 0003 of the local database: the state file of the nipost       *)
(* builder is moved into the database                                       *)
(***************************************************************************)

\* the poet services a state file can name; poet2 is the retired
\* mainnet-poet-2
PoetServices == {"poet1", "poet2", "poet3"}

mainnetPoet2ServiceID == "poet2"

\* the services the node has a client for (migration0003.poetClients)
poetClients == {"poet1", "poet2"}

EmptyPoetProofRef == "none"

\* types.NIPostChallenge.Hash
ChallengeHash(ch) == <<"hash", ch>>

\* a challenge other than the persisted one
OtherChallenge == InitialChallenge(1, GoldenATXID, ResumedPost)

\* the state files the nipost builder of the earlier version can have
\* left: the requests of phase 0, the proof reference of phase 1 and the post
\* of phase 2, no phase done before the one ahead of it
BuilderStates ==
    {st \in [Challenge : {ChallengeHash(ResumedChallenge),
                          ChallengeHash(OtherChallenge)},
             PoetRequests : SUBSET PoetServices,
             PoetProofRef : {EmptyPoetProofRef, "ref"},
             Post : {Nil, Some("post")}] :
        /\ st.PoetProofRef # EmptyPoetProofRef => st.PoetRequests # {}
        /\ st.Post # Nil => st.PoetProofRef # EmptyPoetProofRef}

\* the requests of the state file the loop of the migration inserts a
\* registration for: those of the retired service are skipped
MigratedRequests(st) == st.PoetRequests \ {mainnetPoet2ServiceID}

\* migration0003.moveNipostStateToDb for the identity of the post metadata.
\* fault is what fails: "load" (the state file, the metadata or the read of
\* the challenge), an insert or the update; a request without a client fails
\* in getAddress.  On an error the caller keeps or rolls back what was
\* written (kept).
moveNipostStateToDb(id) ==
    /\ ~migRet.done
    /\ \E fault \in {"none", "load", "register", "update", "nipost"},
          kept \in BOOLEAN :
        IF builderState = Nil
        THEN /\ fault = "none" /\ kept
             /\ migRet' = [done |-> TRUE, err |-> FALSE]
             /\ UNCHANGED <<builderState, poetRegistrations, poetProofRefs,
                            nipostRows>>
        ELSE IF fault = "load"
        THEN /\ kept
             /\ migRet' = [done |-> TRUE, err |-> TRUE]
             /\ UNCHANGED <<builderState, poetRegistrations, poetProofRefs,
                            nipostRows>>
        ELSE
        LET st == Get(builderState)
            ch == Challenge(challenges, id)
            regs == {[id |-> id, hash |-> st.Challenge, address |-> r] :
                        r \in MigratedRequests(st)}
            regErr == fault = "register"
                        \/ MigratedRequests(st) \ poetClients # {}
            ref == st.PoetProofRef # EmptyPoetProofRef
        IN
        IF ch = Nil \/ ChallengeHash(Get(ch)) # st.Challenge
                \/ st.PoetRequests = {}
        THEN /\ fault = "none" /\ kept
             /\ builderState' = Nil
             /\ migRet' = [done |-> TRUE, err |-> FALSE]
             /\ UNCHANGED <<poetRegistrations, poetProofRefs, nipostRows>>
        ELSE IF regErr
        THEN /\ fault \in {"none", "register"}
             /\ \E some \in SUBSET {r \in regs : r.address \in poetClients} :
                    poetRegistrations' =
                        IF kept THEN poetRegistrations \cup some
                        ELSE poetRegistrations
             /\ migRet' = [done |-> TRUE, err |-> TRUE]
             /\ UNCHANGED <<builderState, poetProofRefs, nipostRows>>
        ELSE IF ~ref
        THEN /\ fault = "none" /\ kept
             /\ poetRegistrations' = poetRegistrations \cup regs
             /\ builderState' = Nil
             /\ migRet' = [done |-> TRUE, err |-> FALSE]
             /\ UNCHANGED <<poetProofRefs, nipostRows>>
        ELSE IF fault = "update"
        THEN /\ poetRegistrations' =
                    IF kept THEN poetRegistrations \cup regs
                    ELSE poetRegistrations
             /\ migRet' = [done |-> TRUE, err |-> TRUE]
             /\ UNCHANGED <<builderState, poetProofRefs, nipostRows>>
        ELSE IF st.Post = Nil
        THEN /\ fault = "none" /\ kept
             /\ poetRegistrations' = poetRegistrations \cup regs
             /\ poetProofRefs' =
                    [poetProofRefs EXCEPT ![id] = Some(st.PoetProofRef)]
             /\ builderState' = Nil
             /\ migRet' = [done |-> TRUE, err |-> FALSE]
             /\ UNCHANGED nipostRows
        ELSE IF fault = "nipost"
        THEN /\ poetRegistrations' =
                    IF kept THEN poetRegistrations \cup regs
                    ELSE poetRegistrations
             /\ poetProofRefs' =
                    IF kept
                    THEN [poetProofRefs EXCEPT ![id] = Some(st.PoetProofRef)]
                    ELSE poetProofRefs
             /\ migRet' = [done |-> TRUE, err |-> TRUE]
             /\ UNCHANGED <<builderState, nipostRows>>
        ELSE /\ fault = "none" /\ kept
             /\ poetRegistrations' = poetRegistrations \cup regs
             /\ poetProofRefs' =
                    [poetProofRefs EXCEPT ![id] = Some(st.PoetProofRef)]
             /\ nipostRows' = nipostRows \cup
                    {[id |-> id, post |-> Get(st.Post),
                      poet_proof_ref |-> st.PoetProofRef]}
             /\ builderState' = Nil
             /\ migRet' = [done |-> TRUE, err |-> FALSE]
    /\ UNCHANGED <<dbVars, selVars, lifeVars, proverState, loop, envVars,
                   fetchVars>>

\* the local database of the earlier version, with or without the challenge
\* of Smesher, next to any state file of the nipost builder or none
SpecMigrateInit ==
    /\ BuilderIdle
    /\ SelIdle
    /\ challenges \in {{}, {ChallengeRow(Smesher, ResumedChallenge)}}
    /\ initialPosts = {}
    /\ dbRet = DbNoCall
    /\ builderState \in {Nil} \cup {Some(st) : st \in BuilderStates}
    /\ poetRegistrations = {}
    /\ poetProofRefs = [id \in NodeIDs |-> Nil]
    /\ nipostRows = {}
    /\ migRet = MigNoCall
    /\ FetchIdle

SpecMigrateNext == moveNipostStateToDb(Smesher)

SpecMigrate == SpecMigrateInit /\ [][SpecMigrateNext]_vars

\* a node whose syncer calls GetEpochATXs from two goroutines
SpecFetchInit == BuilderIdle /\ DbInit /\ SelIdle /\ MigIdle /\ FetchIdle

SpecFetchNext ==
    \/ \E c \in FetchCalls, epoch \in FetchEpochs, peers \in ShuffledPeers :
            GetEpochATXs(c, epoch, peers)
    \/ \E c \in FetchCalls : PeerEpochInfo(c)
    \/ \E c \in FetchCalls : UpdateAtxPeer(c)

SpecFetch == SpecFetchInit /\ [][SpecFetchNext]_vars

(***************************************************************************)
(* Claims                                                                   *)
(***************************************************************************)

\* C1: AddChallenge for an identity that already has a persisted challenge
\* returns an error and leaves the table, hence the first challenge, as it
\* was; AddChallenge for an identity without one succeeds and persists
\* exactly the challenge given, also when that same challenge is already
\* persisted for another identity.  No identity ever has two rows.
C1_AddChallengeUnique ==
    /\ \A id \in NodeIDs : Cardinality(RowsOf(challenges, id)) <= 1
    /\ dbRet.op = "AddChallenge" =>
        IF Challenge(dbRet.before, dbRet.id) # Nil
        THEN /\ dbRet.err
             /\ challenges = dbRet.before
        ELSE /\ ~dbRet.err
             /\ Challenge(challenges, dbRet.id) = dbRet.arg
             /\ \A o \in NodeIDs \ {dbRet.id} :
                    Challenge(challenges, o) = Challenge(dbRet.before, o)

\* a second, different challenge was refused for an identity while the same
\* challenge is persisted for the other identity
C1_Witness ==
    /\ dbRet.op = "AddChallenge"
    /\ dbRet.err
    /\ Challenge(dbRet.before, dbRet.id) # Nil
    /\ Challenge(dbRet.before, dbRet.id) # dbRet.arg
    /\ \E o \in NodeIDs \ {dbRet.id} : Challenge(challenges, o) = dbRet.arg

\* how often id was handed to VerifyChain
TimesVerified(id) ==
    Cardinality({i \in 1..Len(selVerified) : selVerified[i] = id})

\* C9: findFullyValidHighTickAtx returns the highest-ranked candidate that
\* passes chain validation: the returned id is in the store, was validated
\* once and is not rejected; the rejection set is exactly the set of the
\* candidates ranked above it, each validated exactly once; no candidate
\* ranked below it was validated; and at no time is a candidate validated
\* twice.  With A > B > C, A failing and B passing, it returns B with
\* rejection set {A}.
C9_HighestValidAnchor ==
    /\ \A c \in Candidates : TimesVerified(c) <= 1
    /\ (selPc = "done" /\ selRet.err = "none") =>
        /\ selRet.id \in selStore
        /\ selRet.id \in selValid
        /\ selRet.id \notin rejectedAtxs
        /\ TimesVerified(selRet.id) = 1
        /\ rejectedAtxs = {c \in selStore : Height(c) > Height(selRet.id)}
        /\ \A c \in rejectedAtxs : TimesVerified(c) = 1
        /\ \A c \in selStore :
               Height(c) < Height(selRet.id) => TimesVerified(c) = 0
    /\ (/\ selPc = "done" /\ ~selCtxDone /\ selRet.err # "db"
        /\ selStore = Candidates /\ "A" \notin selValid /\ "B" \in selValid) =>
        /\ selRet = [id |-> "B", err |-> "none"]
        /\ rejectedAtxs = {"A"}

\* the three candidates are known, A fails, B passes: B was returned after
\* A was rejected
C9_Witness ==
    /\ selPc = "done"
    /\ selStore = Candidates
    /\ "A" \notin selValid
    /\ selValid = {"B", "C"}
    /\ selRet = [id |-> "B", err |-> "none"]
    /\ rejectedAtxs = {"A"}
    /\ selVerified = <<"A", "B">>

\* C2: once StopSmeshing has cancelled the lifecycle context and waits for
\* the goroutines of the group, every control loop and every re-broadcast
\* task it waits for runs under the context it cancelled (so each of them
\* sees the cancellation and the call can return), for identities registered
\* before StartSmeshing and for those registered after it.
C2_StopCancelsEveryLoop ==
    mutex = "stop" => \A k \in GKeys : live[k] > 0 => CtxDone(k[3])

\* C4: while the Builder is started and no StopSmeshing is in progress every
\* registered identity has exactly one control loop that has not returned and
\* no other identity has one; while it is not started no identity has one;
\* no identity ever has two.  The loop counted is the one whose position the
\* model follows.
C4_OneLoopPerIdentity ==
    \A id \in NodeIDs :
        /\ Loops(id) <= 1
        /\ (started /\ mutex = "free") =>
                Loops(id) = IF id \in signers THEN 1 ELSE 0
        /\ ~started => Loops(id) = 0
        /\ Loops(id) = 1 <=> loop[id].pc \notin {"none", "exited"}

\* both identities have their loop, one started by StartSmeshing and one by
\* Register on the started Builder
C4_Witness ==
    /\ started /\ mutex = "free" /\ signers = NodeIDs
    /\ live[<<"n1", "run", "life">>] = 1
    /\ live[<<"n2", "run", "parent">>] = 1

\* the suspension points of the control loop the cancellation contract names
SuspensionPcs ==
    {"waitSync", "waitRound", "waitPublish", "broadcast", "retryWait",
     "retryInterval"}

\* what the loop of id may do in a step taken after its context was cancelled
\* at a suspension point: leave the persisted challenge, the initial post and
\* the prover alone, go nowhere but to the return of PublishActivationTx and
\* to the return of run, and report and classify nothing but Canceled
CleanAfterCancel(id) ==
    /\ challenges' = challenges
    /\ initialPosts' = initialPosts
    /\ proverState'[id] = proverState[id]
    /\ loop'[id].pc \in {loop[id].pc, "failed", "exited"}
    /\ loop'[id].pc = "failed" => loop'[id].err = "canceled"
    /\ loop'[id].outcome \in {loop[id].outcome, "canceled"}

\* C3 as stated: after the lifecycle context is cancelled while the loop is
\* at any suspension point, every step of the loop is clean and ends in the
\* loop's exit as Canceled.
C3_CancellationCleanAsStated ==
    [][\A id \in NodeIDs :
        (/\ loop[id].cancelledAt \in SuspensionPcs
         /\ loop[id].pc # "exited"
         /\ loop'[id] # loop[id]) => CleanAfterCancel(id)]_vars

\* C3: after the lifecycle context is cancelled while the loop is at a
\* suspension point, every step of the loop is clean and ends in the loop's
\* exit as Canceled, unless the cancellation arrives during the broadcast
\* retries after the publication deadline of the derived context has expired
\* (the call then returns DeadlineExceeded, still without touching persisted
\* state).
C3_CancellationClean ==
    [][\A id \in NodeIDs :
        (/\ loop[id].cancelledAt \in SuspensionPcs
         /\ loop[id].pc # "exited"
         /\ loop'[id] # loop[id]) =>
            IF loop[id].cancelledAt = "broadcast" /\ loop[id].ctxErr = "deadline"
            THEN /\ challenges' = challenges
                 /\ initialPosts' = initialPosts
                 /\ proverState'[id] = proverState[id]
                 /\ loop'[id].pc \in {loop[id].pc, "failed", "retryWait",
                                      "exited"}
            ELSE CleanAfterCancel(id)]_vars

\* a loop cancelled while it waited for the publication epoch has returned,
\* classified as Canceled
C3_Witness ==
    \E id \in NodeIDs :
        /\ loop[id].cancelledAt = "waitPublish"
        /\ loop[id].pc = "exited"
        /\ loop[id].outcome = "canceled"

\* the publish phase of BuildNIPostChallenge is over and it returned a
\* challenge to PublishActivationTx
Returned(id) == loop[id].pc = "buildNIPost"

\* C5: when BuildNIPostChallenge found a persisted challenge with a publish
\* epoch lower than the current epoch it read, then while it builds the new
\* one no challenge is persisted and the prover is reset, and the challenge
\* it returns was persisted after the reset and the removal, is the persisted
\* one, and has a publish epoch >= that current epoch.
C5_StaleChallengeReplaced ==
    \A id \in NodeIDs :
        LET l == loop[id] IN
        (l.pre # Nil /\ l.pc \in {"waitRound", "posAtx", "assemble",
                                  "buildNIPost"}) =>
          (Get(l.pre).PublishEpoch < l.cur0 =>
            /\ l.pc # "buildNIPost" =>
                    /\ Challenge(challenges, id) = Nil
                    /\ proverState[id] = "idle"
                    /\ "add" \notin {l.ops[i] : i \in 1 .. Len(l.ops)}
            /\ Returned(id) =>
                    /\ Len(l.ops) >= 3
                    /\ l.ops[1] = "reset" /\ l.ops[2] = "remove"
                    /\ l.ops[Len(l.ops)] = "add"
                    /\ Challenge(challenges, id) = l.chal
                    /\ Get(l.chal).PublishEpoch >= l.cur0)

\* a stale challenge was found and its replacement returned
C5_Witness ==
    \E id \in NodeIDs :
        /\ Returned(id)
        /\ loop[id].pre # Nil
        /\ Get(loop[id].pre).PublishEpoch < loop[id].cur0
        /\ Get(loop[id].chal).PublishEpoch > Get(loop[id].pre).PublishEpoch

\* C6: a BuildNIPostChallenge call that finds a persisted challenge with a
\* publish epoch >= the current epoch returns exactly that challenge, or
\* fails, and changes neither the challenge table nor the prover's state nor
\* the initial posts nor the post states; it does not wait for a round,
\* select an anchor or validate an initial post.  So does every later call in
\* the same epoch.
C6_IdempotentReuse ==
    [][\A id \in NodeIDs :
        LET pre == Challenge(challenges, id) IN
        (/\ loop[id].pc = "waitSync"
         /\ loop'[id].pc # "waitSync"
         /\ pre # Nil) =>
           (Get(pre).PublishEpoch >= EpochAt(now) =>
            /\ loop'[id].pc \in {"buildNIPost", "failed"}
            /\ loop'[id].pc = "buildNIPost" =>
                    /\ loop'[id].chal = pre
                    /\ loop'[id].ops = <<>>
            /\ challenges' = challenges
            /\ proverState' = proverState
            /\ initialPosts' = initialPosts
            /\ postStates' = postStates)]_vars

\* a call returned the challenge an earlier call had persisted
C6_Witness ==
    \E id \in NodeIDs :
        /\ Returned(id)
        /\ loop[id].pre # Nil
        /\ loop[id].chal = loop[id].pre
        /\ loop[id].ops = <<>>
        /\ Challenge(challenges, id) = loop[id].pre

\* C7: for an identity without a prior ATX, while no initial post is
\* persisted no challenge is persisted and no BuildNIPostChallenge call has
\* returned a challenge; a challenge returned for it has sequence 0, the
\* empty previous ATX, and the commitment ATX, nonce, indices and pow of the
\* persisted initial post.
C7_InitialBeforeRegular ==
    \A id \in NodeIDs :
        lastAtx[id] = Nil =>
            LET post == InitialPost(initialPosts, id)
                l == loop[id]
            IN
            /\ post = Nil =>
                    /\ Challenge(challenges, id) = Nil
                    /\ l.pc \notin {"buildNIPost", "waitPublish", "broadcast"}
            /\ Returned(id) =>
                    /\ post # Nil
                    /\ Get(l.chal).Sequence = 0
                    /\ Get(l.chal).PrevATXID = EmptyATXID
                    /\ Get(l.chal).CommitmentATX = Some(Get(post).CommitmentATX)
                    /\ Get(l.chal).InitialPost =
                            Some([Nonce |-> Get(post).Nonce,
                                  Indices |-> Get(post).Indices,
                                  Pow |-> Get(post).Pow])

\* an initial challenge built in this call from the second of the posts
C7_Witness ==
    \E id \in NodeIDs :
        /\ Returned(id)
        /\ lastAtx[id] = Nil
        /\ loop[id].ops = <<"select", "validate", "add">>
        /\ Get(loop[id].chal).CommitmentATX = Some("A")

\* C8: the control loop of an identity without a prior ATX calls
\* PublishActivationTx only while an initial post is persisted: after
\* BuildNIPostChallenge removed an invalid one, the loop goes through the
\* construction of the initial post again before it publishes.
C8_LoopRebuildsInitialPost ==
    \A id \in NodeIDs :
        loop[id].pc = "waitSync" =>
            lastAtx[id] # Nil \/ InitialPost(initialPosts, id) # Nil

\* C10: while PublishActivationTx is in its broadcast loop the ATX was built
\* and signed once and the prover was asked for the proof once in this call,
\* and every broadcast attempt of the call handed the publisher that one ATX,
\* built from the challenge and the proof of the call.
C10_BroadcastRetriesOnly ==
    \A id \in NodeIDs :
        LET l == loop[id] IN
        l.pc = "broadcast" =>
            /\ l.nBuilt = 1
            /\ l.nProve = 1
            /\ l.atx # Nil
            /\ l.sent \subseteq l.atx
            /\ Get(l.atx).Challenge = Get(l.chal)
            /\ Get(l.atx).NIPost = Get(l.nipost).NIPost

\* a broadcast has failed and the loop is about to try again
C10_Witness ==
    \E id \in NodeIDs :
        /\ loop[id].pc = "broadcast"
        /\ loop[id].nBcast >= 1
        /\ loop[id].sent = loop[id].atx

\* what a step of the loop of id in the broadcast loop of PublishActivationTx
\* may be, given the errors of the derived context (ctxErrs) that may end the
\* loop: another turn, with the persisted challenge and the prover's state
\* as they were; the publisher accepted the ATX, after which the call returns
\* success or the error of the cleanup; or the derived context is done with
\* one of ctxErrs and the call returns that error, with the persisted
\* challenge and the prover's state as they were
BroadcastLoopStep(id, ctxErrs) ==
    LET l == loop[id] IN
    \/ /\ loop'[id].pc = "broadcast"
       /\ challenges' = challenges
       /\ proverState' = proverState
    \/ /\ network'[id] = l.atx
       /\ loop'[id].pc \in {"waitSync", "failed"}
       /\ loop'[id].pc = "failed" => loop'[id].err = "other"
    \/ /\ l.ctxErr \in ctxErrs
       /\ loop'[id].pc = "failed"
       /\ loop'[id].err = l.ctxErr
       /\ challenges' = challenges
       /\ proverState' = proverState

\* C11 as stated: the broadcast loop ends only when the publisher accepted
\* the ATX or when the context was cancelled.
C11_BroadcastLoopEndsAsStated ==
    [][\A id \in NodeIDs :
        (loop[id].pc = "broadcast" /\ loop'[id] # loop[id]) =>
            BroadcastLoopStep(id, {"canceled"})]_vars

\* C11: the broadcast loop ends only when the publisher accepted the ATX or
\* when the context of the publish attempt is done, by cancellation or by the
\* expiry of its deadline at the first layer of the target epoch; a failed
\* broadcast alone neither ends the call nor removes the persisted challenge
\* nor resets the prover.
C11_BroadcastLoopEnds ==
    [][\A id \in NodeIDs :
        (loop[id].pc = "broadcast" /\ loop'[id] # loop[id]) =>
            BroadcastLoopStep(id, {"canceled", "deadline"})]_vars

\* a broadcast failed, was tried again, and the call then returned because
\* the deadline of the publish attempt expired
C11_Witness ==
    \E id \in NodeIDs :
        /\ loop[id].pc = "failed"
        /\ loop[id].err = "deadline"
        /\ loop[id].nBcast >= 1
        /\ loop[id].sent # {}

\* C12: at every point between the operations of the Builder an identity
\* without a persisted challenge has no proving in progress in the prover,
\* whatever publish successes, stale resets, expired-challenge recoveries and
\* StopSmeshing(reset) calls came before, failed resets and removals
\* included.
C12_NoChallengeNoProgress ==
    \A id \in NodeIDs :
        Challenge(challenges, id) = Nil => proverState[id] # "inprogress"

\* the step of createAtx in which the wait for the publication epoch of the
\* challenge of id ends by the layer's arrival with the publish epoch passed
PublishEpochPassed(id) ==
    /\ loop[id].pc = "waitPublish"
    /\ loop[id].wake = "event"
    /\ loop'[id].pc # "waitPublish"
    /\ Get(loop[id].chal).PublishEpoch < EpochAt(now)

\* such a step creates no ActivationTx and fails, with the expired kind
\* exactly when the challenge carries no initial post, and touches no
\* persisted state
FailsAsExpiredOrNot(id) ==
    /\ loop'[id].pc = "failed"
    /\ loop'[id].atx = Nil
    /\ loop'[id].nBuilt = 0
    /\ loop'[id].err = "expired" <=> Get(loop[id].chal).InitialPost = Nil
    /\ loop'[id].err \in {"expired", "other"}
    /\ challenges' = challenges
    /\ initialPosts' = initialPosts

\* the loop of id holds a challenge BuildNIPostChallenge returned
HoldsChallenge(id) ==
    loop[id].pc \in {"buildNIPost", "waitPublish", "broadcast"}

\* C13 as stated: a passed publish epoch fails the operation without an
\* ActivationTx, as expired when the challenge carries no initial post and
\* with another error when it does; after the latter the running loop never
\* comes to hold a challenge again (no recovery short of a restart).
C13_PublishEpochPassedAsStated ==
    [][\A id \in NodeIDs :
        /\ PublishEpochPassed(id) => FailsAsExpiredOrNot(id)
        /\ loop'[id].lapsed => ~HoldsChallenge(id)']_vars

\* C13: a passed publish epoch fails the operation without an ActivationTx,
\* as expired when the challenge carries no initial post and with another
\* error when it does; after the latter the same loop can come to hold a
\* challenge again without a restart (a later cycle finds the persisted one
\* stale and replaces it), and that challenge is again an initial one, with
\* a publish epoch that has not passed when it is returned.
C13_PublishEpochPassed ==
    [][\A id \in NodeIDs :
        /\ PublishEpochPassed(id) => FailsAsExpiredOrNot(id)
        /\ (loop'[id].lapsed /\ Returned(id)' /\ lastAtx'[id] = Nil) =>
                /\ Get(loop'[id].chal).InitialPost # Nil
                /\ Get(loop'[id].chal).PublishEpoch >= EpochAt(now')]_vars

\* the loop whose initial challenge lapsed holds a new initial challenge
C13_Witness ==
    \E id \in NodeIDs :
        /\ loop[id].lapsed
        /\ Returned(id)
        /\ Get(loop[id].chal).InitialPost # Nil
        /\ Get(loop[id].chal).PublishEpoch >= EpochAt(now)

\* the step of run in which a PublishActivationTx call of id that failed with
\* the error err is handled, the process staying alive
HandlesFailure(id, err) ==
    /\ loop[id].pc = "failed"
    /\ loop[id].err = err
    /\ loop'[id].pc # "failed"
    /\ mutex' # "dead"

\* a step of the loop of id while it waits after a cycle that ended with
\* outcome
WaitsAfter(id, pc, outcome) ==
    /\ loop[id].pc = pc
    /\ loop[id].outcome = outcome
    /\ loop'[id] # loop[id]
    /\ mutex' # "dead"

\* the wait of id ends as a select on ctx.Done() and the clock does: by the
\* return of run when the context is done, or by the next cycle when the time
\* waited for has come; the tables are as before
WaitEnds(id) ==
    /\ loop'[id].pc \in {loop[id].pc, "waitSync", "exited"}
    /\ loop'[id].pc = loop[id].pc => loop'[id].until = loop[id].until
    /\ loop'[id].pc = "exited" => CtxDone(loop[id].ctx)
    /\ loop'[id].pc = "waitSync" => now >= loop[id].until
    /\ challenges' = challenges
    /\ initialPosts' = initialPosts
    /\ proverState' = proverState

\* C14: handling the expired-challenge error, run calls ResetState and
\* RemoveChallenge for the identity, both whatever the other returns: unless
\* the error of the call is logged, the prover is idle and no challenge is
\* persisted afterwards.  The loop then waits for the next layer; the wait
\* ends by the return of run when the context is done, else by a new cycle,
\* which finds no persisted challenge to reuse.  No initial post is changed.
C14_ExpiredRecovery ==
    [][\A id \in NodeIDs :
        /\ HandlesFailure(id, "expired") =>
            /\ loop'[id].pc = "retryWait"
            /\ loop'[id].outcome = "expired"
            /\ loop'[id].until = NextLayerTime
            /\ proverState'[id] = IF "reset" \in loop'[id].logged
                                  THEN proverState[id] ELSE "idle"
            /\ Challenge(challenges', id) =
                    IF "remove" \in loop'[id].logged
                    THEN Challenge(challenges, id) ELSE Nil
            /\ initialPosts' = initialPosts
        /\ WaitsAfter(id, "retryWait", "expired") =>
            /\ WaitEnds(id)
            /\ (loop'[id].pc = "waitSync" /\ "remove" \notin loop[id].logged)
                    => Challenge(challenges', id) = Nil]_vars

\* an expired challenge was removed and the prover reset, and the loop waits
\* for the next layer
C14_Witness ==
    \E id \in NodeIDs :
        /\ loop[id].pc = "retryWait"
        /\ loop[id].outcome = "expired"
        /\ loop[id].logged = {}
        /\ loop[id].until = NextLayerTime
        /\ Challenge(challenges, id) = Nil
        /\ proverState[id] = "idle"

\* the loop of id is between a PublishActivationTx call that failed with
\* ErrPoetServiceUnstable and the next call
UnstableRetry(id) ==
    \/ loop[id].pc = "failed" /\ loop[id].err = "unstable"
    \/ loop[id].pc = "retryInterval"

UnknownErrs == {"other", "deadline"}

\* what run does between the cycles of id in a step: it returns only with
\* its context done; an accepted broadcast followed by the reset and the
\* removal starts the next cycle; a failure of the default branch leaves the
\* loop waiting for the next layer with the tables as they are, and that
\* wait ends by the return of run or by the next cycle
LoopGoesOn(id) ==
    /\ (loop[id].pc \notin {"none", "exited"} /\ loop'[id].pc = "exited")
            => CtxDone(loop[id].ctx)
    /\ (loop[id].pc = "broadcast" /\ loop'[id].pc \notin {"broadcast", "failed"})
            => /\ loop'[id].pc = "waitSync"
               /\ network'[id] = loop[id].atx
    /\ \A err \in UnknownErrs :
        HandlesFailure(id, err) =>
            /\ loop'[id].pc = "retryWait"
            /\ loop'[id].outcome = "unknown"
            /\ loop'[id].until = NextLayerTime
            /\ challenges' = challenges
            /\ initialPosts' = initialPosts
            /\ proverState' = proverState
    /\ WaitsAfter(id, "retryWait", "unknown") => WaitEnds(id)

\* the loop of id is ended in this step by the exit of the process
ProcessExits(id) ==
    /\ loop[id].pc \notin {"none", "exited", "fatal"}
    /\ loop'[id].pc = "fatal"

AwaitingInitialProof(id) ==
    loop[id].pc \in {"initialPost", "proof", "initialPostWait"}

Returns(op) == lifeRet' # lifeRet /\ lifeRet'.op = op

\* C18: StartSmeshing on a started Builder returns the error "already
\* started" and changes nothing but the value returned: coinbase, context and
\* goroutines are as before.  StopSmeshing on a Builder not started returns
\* "not started" and changes nothing else.  Smeshing() turns true only by a
\* StartSmeshing that returns nil, which every StartSmeshing on a Builder not
\* started does, and turns false only by the return of a StopSmeshing that
\* found it started, after which no call holds the mutex.
C18_StartStopGuards ==
    [][/\ Returns("StartSmeshing") =>
            IF Smeshing
            THEN /\ lifeRet'.err = {ErrAlreadyStarted}
                 /\ UNCHANGED <<signers, started, lifeDone, mutex, deleteFiles,
                                live, coinbaseAccount, regossip, regossipRet,
                                accountLock, caller, postStates, proverState,
                                loop, dbVars>>
            ELSE /\ lifeRet'.err = {}
                 /\ Smeshing'
                 /\ ~lifeDone'
       /\ (Returns("StopSmeshing") /\ ~Smeshing) =>
            /\ lifeRet'.err = {ErrNotStarted}
            /\ UNCHANGED <<signers, started, lifeDone, mutex, deleteFiles,
                           live, coinbaseAccount, regossip, regossipRet,
                           accountLock, caller, postStates, proverState, loop,
                           dbVars>>
       /\ (~Smeshing /\ Smeshing') => lifeRet' = [op |-> "StartSmeshing",
                                                  err |-> {}]
       /\ (Smeshing /\ ~Smeshing') =>
            /\ Returns("StopSmeshing")
            /\ mutex' = "free"
       /\ Smeshing => coinbaseAccount' = coinbaseAccount]_vars

\* the Builder was started, stopped and started again: the loop of an
\* identity is at its start with an initial post that an earlier loop
\* persisted, or without the challenge that a StopSmeshing removed; a
\* further StartSmeshing then returned the error
C18_Witness ==
    /\ Smeshing
    /\ lifeRet = [op |-> "StartSmeshing", err |-> {ErrAlreadyStarted}]
    /\ \E id \in signers :
        /\ loop[id].pc = "initialPost"
        /\ loop[id].ctx = "life"
        /\ InitialPost(initialPosts, id) # Nil
        /\ Challenge(challenges, id) = Nil

\* the step is a step of a StopSmeshing call on a started Builder: b.stop(),
\* or the return after eg.Wait()
StopSmeshingStep ==
    \/ mutex = "free" /\ mutex' = "stop"
    \/ mutex = "stop" /\ mutex' = "free"

\* C19: a StopSmeshing call changes the persisted challenges, the prover's
\* states and the PostStates only at its return, which comes with every
\* goroutine of the Builder returned, and only if it was called with
\* deleteFiles: then the PostState of every registered identity is idle, its
\* prover state is idle and its challenge is removed unless the call
\* reports the failure of that reset or removal.  No StopSmeshing call changes
\* the initial posts.
C19_StopKeepsState ==
    [][StopSmeshingStep =>
        /\ initialPosts' = initialPosts
        /\ (mutex' = "stop" \/ ~deleteFiles) =>
            /\ challenges' = challenges
            /\ proverState' = proverState
            /\ postStates' = postStates
        /\ mutex' = "free" =>
            /\ \A k \in GKeys : live[k] = 0
            /\ \A id \in signers : loop[id].pc = "exited"
            /\ deleteFiles => \A id \in signers :
                /\ postStates'[id] = "idle"
                /\ <<"reset", id>> \notin lifeRet'.err
                        => proverState'[id] = "idle"
                /\ lifeRet'.err \cap {<<"reset", id>>, <<"remove", id>>} = {}
                        => Challenge(challenges', id) = Nil]_vars

\* StopSmeshing(false) returned: the challenge of a registered identity is
\* still persisted, with the proving in progress and the initial post
C19_Witness ==
    /\ lifeRet = [op |-> "StopSmeshing", err |-> {}]
    /\ ~Smeshing
    /\ mutex = "free"
    /\ \E id \in signers :
        /\ loop[id].pc = "exited"
        /\ Challenge(challenges, id) # Nil
        /\ proverState[id] = "inprogress"
        /\ InitialPost(initialPosts, id) # Nil

\* the step is the return of a StopSmeshing(true) call
StopSmeshingResetReturns ==
    mutex = "stop" /\ mutex' = "free" /\ deleteFiles

\* ResetState was called for id: the prover is reset, or the call's failure
\* is in the error returned
ResetAttempted(id) ==
    proverState'[id] = "idle" \/ <<"reset", id>> \in lifeRet'.err

\* RemoveChallenge was called for id: the challenge is removed, or the call's
\* failure is in the error returned
RemoveAttempted(id) ==
    Challenge(challenges', id) = Nil \/ <<"remove", id>> \in lifeRet'.err

\* C20 as stated: StopSmeshing(true) calls ResetState and RemoveChallenge for
\* every registered identity whatever failed before, and returns every
\* failure.
C20_StopResetsAllAsStated ==
    [][StopSmeshingResetReturns =>
        \A id \in signers : ResetAttempted(id) /\ RemoveAttempted(id)]_vars

\* C20: StopSmeshing(true) calls ResetState for every registered identity
\* whatever failed for another one, and RemoveChallenge for every identity
\* whose ResetState succeeded; for an identity whose ResetState failed the
\* challenge and the prover state stay and no removal failure is returned.
\* The error returned holds exactly the failures of these calls, so it is nil
\* only if every prover is reset and every challenge removed.
C20_StopResetsAll ==
    [][StopSmeshingResetReturns =>
        /\ \A id \in signers :
            /\ ResetAttempted(id)
            /\ IF <<"reset", id>> \in lifeRet'.err
               THEN /\ Challenge(challenges', id) = Challenge(challenges, id)
                    /\ proverState'[id] = proverState[id]
                    /\ <<"remove", id>> \notin lifeRet'.err
               ELSE RemoveAttempted(id)
            /\ <<"remove", id>> \in lifeRet'.err =>
                    Challenge(challenges', id) = Challenge(challenges, id)
        /\ lifeRet'.err \subseteq {"reset", "remove"} \X signers]_vars

\* StopSmeshing(true) returned the failed reset of one identity, whose
\* challenge and proving state are in place, and reset another identity
C20_Witness ==
    /\ ~Smeshing
    /\ \E a \in signers, b \in signers :
        /\ a # b
        /\ lifeRet = [op |-> "StopSmeshing", err |-> {<<"reset", a>>}]
        /\ Challenge(challenges, a) # Nil
        /\ proverState[a] = "inprogress"
        /\ Challenge(challenges, b) = Nil
        /\ proverState[b] = "idle"

\* the goroutines of id in the Builder's group
Tasks(lv, id) == [k \in {g \in GKeys : g[1] = id} |-> lv[k]]

\* C21: no identity leaves the registry.  A step that is not one of
\* StartSmeshing or StopSmeshing starts no goroutine for a registered
\* identity, and unless it is a step of the identity's own loop it leaves
\* its PostState, Proving included, and its goroutines as they are: so does
\* Register of that identity, whether the Builder is started or not.  A step
\* that registers an identity adds only that one, sets its PostState to idle,
\* starts its loop if and only if the Builder is started, and leaves the
\* PostStates and goroutines of the others alone.
C21_RegisterIdempotent ==
    [][\A id \in NodeIDs :
        /\ id \in signers => id \in signers'
        /\ (id \in signers /\ started' = started /\ mutex' = mutex) =>
            /\ \A k \in DOMAIN Tasks(live, id) : live'[k] <= live[k]
            /\ loop'[id] = loop[id] =>
                /\ postStates'[id] = postStates[id]
                /\ Tasks(live', id) = Tasks(live, id) \/ lifeRet' = lifeRet
        /\ (id \notin signers /\ id \in signers') =>
            /\ signers' = signers \cup {id}
            /\ lifeRet' = [op |-> "Register", err |-> {}]
            /\ postStates' = [postStates EXCEPT ![id] = "idle"]
            /\ Loops(id)' = IF started THEN 1 ELSE 0
            /\ \A o \in NodeIDs \ {id} :
                    Tasks(live', o) = Tasks(live, o) /\ loop'[o] = loop[o]
            /\ UNCHANGED <<started, lifeDone, mutex, coinbaseAccount>>]_vars

\* the only registered identity, whose loop StartSmeshing started, is
\* computing its initial proof, PostState Proving, and the last call of the
\* Builder's API was a Register, which can only have been of that identity
C21_Witness ==
    \E id \in NodeIDs :
        /\ signers = {id}
        /\ started
        /\ lifeRet = [op |-> "Register", err |-> {}]
        /\ loop[id].pc = "proof"
        /\ loop[id].ctx = "life"
        /\ postStates[id] = "proving"
        /\ Loops(id) = 1

\* the step removes the persisted challenge of id in one of the four places
\* that do: the stale test of BuildNIPostChallenge, the expired-challenge
\* recovery of run, the accepted broadcast, the return of StopSmeshing(true)
ChallengeRemovalPlace(id) ==
    \/ /\ loop[id].pc = "waitSync"
       /\ loop[id].wake = "event"
       /\ IsStale(Get(Challenge(challenges, id)), EpochAt(now))
    \/ /\ loop[id].pc = "failed"
       /\ loop[id].err = "expired"
    \/ /\ loop[id].pc = "broadcast"
       /\ network'[id] = loop[id].atx
       /\ loop'[id].pc = "waitSync"
    \/ StopSmeshingResetReturns

\* the step is the one of BuildNIPostChallenge in which validator.Post
\* returned an error for the persisted initial post of id
ValidationFailed(id) ==
    /\ loop[id].pc = "assemble"
    /\ lastAtx[id] = Nil
    /\ loop'[id].pc = "failed"

\* what a step may do to the two records of id: remove the challenge in one
\* of the four places and never replace it; remove the initial post after
\* its validation returned an error and never replace it
RecordsKept(id) ==
    /\ (Challenge(challenges, id) # Nil
            /\ Challenge(challenges', id) # Challenge(challenges, id)) =>
        /\ Challenge(challenges', id) = Nil
        /\ ChallengeRemovalPlace(id)
    /\ (InitialPost(initialPosts, id) # Nil
            /\ InitialPost(initialPosts', id) # InitialPost(initialPosts, id)) =>
        /\ InitialPost(initialPosts', id) = Nil
        /\ ValidationFailed(id)

\* C22: a persisted challenge is removed only by the stale test, the
\* expired-challenge recovery, a successful publish or StopSmeshing(true),
\* and never replaced; a persisted initial post is removed only after its
\* validation failed, and never replaced; and no step in which a call fails
\* by cancellation removes either.
C22_RemovalOnlyBy ==
    [][\A id \in NodeIDs :
        /\ RecordsKept(id)
        /\ (loop'[id].pc = "failed" /\ loop'[id].err = "canceled") =>
            /\ Challenge(challenges', id) = Challenge(challenges, id)
            /\ InitialPost(initialPosts', id) = InitialPost(initialPosts, id)]_vars

\* the step writes the initial post of id
InitialPostWritten(id) ==
    /\ InitialPost(initialPosts', id) # Nil
    /\ InitialPost(initialPosts', id) # InitialPost(initialPosts, id)

PersistFailed(id) ==
    /\ loop[id].pc = "assemble"
    /\ loop'[id].pc = "failed"
    /\ lastAtx[id] # Nil \/ InitialPost(initialPosts', id) # Nil

\* the step is the return of a challenge by BuildNIPostChallenge for id
ReturnsChallenge(id) ==
    loop[id].pc \notin {"buildNIPost", "none", "exited"} /\ Returned(id)'

\* a returned challenge is the persisted one; a failed AddChallenge returns an
\* error and no challenge, and changes no table and no prover state
PersistOrFail(id) ==
    /\ ReturnsChallenge(id) => Challenge(challenges', id) = loop'[id].chal
    /\ PersistFailed(id) =>
        /\ loop'[id].err = "other"
        /\ loop'[id].chal = Nil
        /\ challenges' = challenges
        /\ initialPosts' = initialPosts
        /\ proverState' = proverState

\* C24 as stated: a returned challenge is the persisted one, and after a
\* failed AddChallenge the persisted challenge is the one the call found when
\* it started.
C24_ReturnedIsPersistedAsStated ==
    [][\A id \in NodeIDs :
        /\ PersistOrFail(id)
        /\ PersistFailed(id) =>
                Challenge(challenges', id) = loop[id].pre]_vars

\* C24: a returned challenge is the persisted one.  A failed AddChallenge
\* returns an error and no challenge and leaves the tables and the prover as
\* they were before it; no challenge is persisted then: either the call
\* found none, or it found a stale one, and has reset the prover and removed
\* that one before.
C24_ReturnedIsPersisted ==
    [][\A id \in NodeIDs :
        /\ PersistOrFail(id)
        /\ PersistFailed(id) =>
            /\ Challenge(challenges', id) = Nil
            /\ loop[id].pre # Nil =>
                /\ IsStale(Get(loop[id].pre), loop[id].cur0)
                /\ loop[id].ops[1] = "reset" /\ loop[id].ops[2] = "remove"
                /\ proverState'[id] = "idle"]_vars

\* AddChallenge failed in a call that had found a stale challenge and removed
\* it: no challenge is persisted and the call returned an error
C24_Witness ==
    \E id \in NodeIDs :
        /\ loop[id].pc = "failed"
        /\ loop[id].err = "other"
        /\ loop[id].pre # Nil
        /\ Len(loop[id].ops) >= 3
        /\ loop[id].ops[1] = "reset" /\ loop[id].ops[2] = "remove"
        /\ loop[id].ops[Len(loop[id].ops)] = "validate"
        /\ lastAtx[id] = Nil
        /\ InitialPost(initialPosts, id) # Nil
        /\ Challenge(challenges, id) = Nil

\* the positioning ATX of the challenge persisted for Smesher, as an optional
PersistedPositioningAtx ==
    {ch.PositioningATX : ch \in Challenge(challenges, Smesher)}

\* C25: when BuildNIPostChallenge is past getPositioningAtx, the positioning
\* ATX is the golden ATX exactly when findFullyValidHighTickAtx returned
\* ErrNotFound, which it does only with every ATX of the store rejected, each
\* after one chain validation that it failed (none when the store is empty);
\* the id it found otherwise is the positioning ATX; and after any other
\* error, the cancellation and the failed query, no challenge is persisted.
C25_GoldenWhenNoneLeft ==
    /\ (selPc \in {"done", "returned"} /\ selRet.err = "notfound") =>
        /\ selStore \subseteq rejectedAtxs
        /\ rejectedAtxs \cap selValid = {}
        /\ \A c \in selStore : TimesVerified(c) = 1
    /\ selPc = "returned" =>
        /\ PersistedPositioningAtx = Some(GoldenATXID)
                <=> selRet.err = "notfound"
        /\ selRet.err = "none" => PersistedPositioningAtx = Some(selRet.id)
        /\ selRet.err \notin {"none", "notfound"} =>
            /\ selRet.err \in {"canceled", "db"}
            /\ selRet.err = "canceled" => selCtxDone
            /\ challenges = {}

\* every ATX of the store failed its chain validation, and the challenge was
\* persisted with the golden ATX as positioning ATX
C25_Witness ==
    /\ selPc = "returned"
    /\ selStore = Candidates
    /\ selRet.err = "notfound"
    /\ rejectedAtxs = Candidates
    /\ Len(selVerified) = 3
    /\ PersistedPositioningAtx = Some(GoldenATXID)


\* the call before the last one was op for the same identity
Follows(op) == dbRet.prev.op = op /\ dbRet.prev.id = dbRet.id

\* C26: a Challenge call that follows a successful AddChallenge for the same
\* identity returns, without error, a value equal to the one added, whether
\* or not it has a commitment ATX and an initial post; a Challenge call that
\* follows RemoveChallenge for the identity returns the not-found error and
\* no value
C26_ChallengeRoundTrip ==
    dbRet.op = "Challenge" =>
        /\ Follows("AddChallenge") /\ ~dbRet.prev.err =>
                ~dbRet.err /\ dbRet.val = dbRet.prev.arg
        /\ Follows("RemoveChallenge") => dbRet.err /\ dbRet.val = Nil

\* an initial challenge, with commitment ATX and initial post, read back
\* after it was added
C26_Witness ==
    /\ dbRet.op = "Challenge"
    /\ Follows("AddChallenge")
    /\ ~dbRet.prev.err
    /\ dbRet.val # Nil
    /\ Get(dbRet.val).InitialPost = Some(TestPost)
    /\ Get(dbRet.val).CommitmentATX # Nil

\* C27: AddPost never fails, also for an identity that has a post; the
\* GetPost that follows it for the identity returns the post just added, and
\* the identity has that one post only
C27_AddPostOverwrites ==
    /\ dbRet.op = "AddPost" =>
            /\ ~dbRet.err
            /\ InitialPost(initialPosts, dbRet.id) = dbRet.arg
    /\ dbRet.op = "GetPost" /\ Follows("AddPost") =>
            ~dbRet.err /\ dbRet.val = dbRet.prev.arg

\* the second post read back after it was added over the first
C27_Witness ==
    /\ dbRet.op = "GetPost"
    /\ Follows("AddPost")
    /\ dbRet.prev.had # Nil
    /\ dbRet.prev.had # dbRet.prev.arg
    /\ dbRet.val = dbRet.prev.arg

\* C28: UpdateChallenge for an identity that has a persisted challenge
\* leaves the identity with exactly one row, that of the new value, and the
\* Challenge call that follows returns the new value
C28_UpdateReplaces ==
    /\ dbRet.op = "UpdateChallenge" /\ dbRet.had # Nil =>
            /\ ~dbRet.err
            /\ Cardinality(RowsOf(challenges, dbRet.id)) = 1
            /\ Challenge(challenges, dbRet.id) = dbRet.arg
    /\ dbRet.op = "Challenge" /\ Follows("UpdateChallenge")
            /\ dbRet.prev.had # Nil =>
            ~dbRet.err /\ dbRet.val = dbRet.prev.arg

\* a challenge read back with the publish epoch an update gave it
C28_Witness ==
    /\ dbRet.op = "Challenge"
    /\ Follows("UpdateChallenge")
    /\ dbRet.prev.had # Nil
    /\ dbRet.val = dbRet.prev.arg
    /\ Get(dbRet.val).PublishEpoch # Get(dbRet.prev.had).PublishEpoch


\* the re-broadcast tasks of the identities
RegossipTasks == {k \in GKeys : k[2] = "regossip"}

\* C29: a re-broadcast task returns only when its context is cancelled,
\* whatever Regossip returned before; a call of Regossip changes neither the
\* control loops nor the goroutines of the Builder, nor the persisted
\* challenges, the initial posts, the prover state and the PostStates; and
\* when the identity has no ATX of the current epoch and the lookup does not
\* fail, Regossip publishes nothing and returns no error
C29_RegossipContained ==
    [][/\ \A k \in RegossipTasks : live'[k] < live[k] => CtxDone(k[3])
       /\ regossipRet' # regossipRet =>
            /\ loop' = loop
            /\ live' = live
            /\ challenges' = challenges
            /\ initialPosts' = initialPosts
            /\ proverState' = proverState
            /\ postStates' = postStates
            /\ AtxOfCurrentEpoch(regossipRet'.id) = Nil
                    /\ regossipRet'.err # "db" =>
                    regossipRet'.err = "none" /\ regossipRet'.sent = Nil]_vars

\* Regossip has failed, and the task and the control loop of the identity
\* run on, their context not cancelled
C29_Witness ==
    /\ regossipRet.err \in {"blob", "publish"}
    /\ ~lifeDone
    /\ live[<<Smesher, "regossip", "life">>] = 1
    /\ live[<<Smesher, "run", "life">>] = 1
    /\ loop[Smesher].pc = "waitSync"

\* C30: b.coinbaseAccount is never written while a caller of Coinbase or of
\* SetCoinbase holds accountLock
C30_CoinbaseWritesUnderLock == ~caller.raced

\* the epoch a call of BuildNIPostChallenge made now for id has to build on:
\* the later of the current epoch and the publish epoch of the last ATX of
\* id, or the epoch after it when the first layer of that epoch plus the
\* phase shift is not in the future
ChosenEpoch(id) ==
    LET cur == now \div (LayerDuration * LayersPerEpoch)
        e == IF lastAtx[id] # Nil /\ Get(lastAtx[id]).PublishEpoch > cur
             THEN Get(lastAtx[id]).PublishEpoch ELSE cur
    IN  IF e * LayersPerEpoch * LayerDuration + PhaseShift > now
        THEN e ELSE e + 1

\* C31: a call of BuildNIPostChallenge that builds a new challenge chooses
\* the later of the current epoch and the publish epoch of the identity's
\* last ATX, or the epoch after it when that epoch's round start is not in
\* the future; the challenge it persists has the publish epoch chosen + 1
C31_TargetEpoch ==
    [][\A id \in NodeIDs :
        /\ loop[id].pc = "waitSync" /\ loop'[id].pc \in {"waitRound", "posAtx"}
            => loop'[id].cur = ChosenEpoch(id)
        /\ loop[id].pc = "assemble"
                /\ Challenge(challenges', id) # Challenge(challenges, id)
            => /\ Challenge(challenges', id) # Nil
               /\ Get(Challenge(challenges', id)).PublishEpoch
                    = loop[id].cur + 1]_vars

\* a regular challenge was persisted on the epoch of the last ATX, which is
\* ahead of the current epoch of the call
C31_Witness ==
    /\ loop[Smesher].pc = "buildNIPost"
    /\ loop[Smesher].ops # <<>>
    /\ loop[Smesher].ops[Len(loop[Smesher].ops)] = "add"
    /\ lastAtx[Smesher] # Nil
    /\ Get(lastAtx[Smesher]).PublishEpoch > loop[Smesher].cur0
    /\ Challenge(challenges, Smesher) # Nil
    /\ Get(Challenge(challenges, Smesher)).PublishEpoch
            = Get(lastAtx[Smesher]).PublishEpoch + 1

\* calls of GetIDWithMaxHeight made so far: one for each candidate handed to
\* VerifyChain, one that is being made or has ended the function otherwise
Selections ==
    Len(selVerified)
        + IF selPc = "done" /\ selRet.err \in {"notfound", "db"} THEN 1 ELSE 0

\* C32: with a finite store every iteration of findFullyValidHighTickAtx
\* either returns or adds to the rejection set the candidate it selected,
\* which was in the store and not yet rejected; so the rejection set grows
\* strictly within the store and there are at most (number of candidates + 1)
\* selections.  An iteration that starts with the context cancelled returns
\* the cancellation error and validates no candidate.
C32_SelectionTerminates ==
    [][/\ rejectedAtxs \subseteq selStore
       /\ Selections' <= Cardinality(selStore) + 1
       /\ Cardinality(rejectedAtxs') <= Len(selVerified')
       /\ selPc = "loop" /\ selPc' # "loop" =>
            /\ selPc' \in {"done", "verify"}
            /\ selPc' = "verify" =>
                    selCand' \in selStore /\ selCand' \notin rejectedAtxs
            /\ selCtxDone =>
                /\ selPc' = "done"
                /\ selRet' = [id |-> EmptyATXID, err |-> "canceled"]
            /\ selVerified' = selVerified
            /\ rejectedAtxs' = rejectedAtxs
       /\ selPc = "verify" /\ selPc' # "verify" =>
            \/ selPc' = "done" /\ selRet'.err = "none"
            \/ /\ selPc' = "loop"
               /\ selCand \notin rejectedAtxs
               /\ rejectedAtxs' = rejectedAtxs \cup {selCand}
               /\ Cardinality(rejectedAtxs')
                    = Cardinality(rejectedAtxs) + 1]_vars

\* every candidate of a store of three was selected, validated and rejected,
\* and the fourth selection found none
C32_Witness ==
    /\ selPc = "done"
    /\ selStore = Candidates
    /\ rejectedAtxs = Candidates
    /\ Len(selVerified) = 3
    /\ Selections = 4
    /\ selRet.err = "notfound"

\* C33: in the database a proof reference is recorded for the challenge of
\* an identity only if a poet registration of the identity is recorded, and
\* a row of table nipost (the executed post) only if the proof reference is
C33_PhasesInOrder ==
    \A id \in NodeIDs :
        /\ poetProofRefs[id] # Nil =>
                \E r \in poetRegistrations : r.id = id
        /\ (\E n \in nipostRows : n.id = id) => poetProofRefs[id] # Nil

\* C34: the ATX built for a challenge with the empty previous-ATX id carries
\* the VRF nonce of the post and the node id; the ATX built for a regular
\* challenge carries no node id, and the VRF nonce of the post only if it
\* differs from the nonce recorded for the identity: none if the two are
\* equal or the recorded nonce could not be read
C34_NonceOnlyIfChanged ==
    \A id \in NodeIDs :
        LET l == loop[id] IN
        l.pc = "broadcast" =>
            \A a \in l.atx :
                IF a.Challenge.PrevATXID = EmptyATXID
                THEN /\ a.VRFNonce = Some(Get(l.nipost).VRFNonce)
                     /\ a.NodeID = Some(id)
                ELSE /\ a.NodeID = Nil
                     /\ l.oldNonce = "differs" =>
                            a.VRFNonce = Some(Get(l.nipost).VRFNonce)
                     /\ l.oldNonce \in {"same", "err"} => a.VRFNonce = Nil
                     /\ l.oldNonce \in {"differs", "same", "err"}

\* an ATX built for a regular challenge while the recorded nonce is the one
\* of the post: it carries no nonce
C34_Witness ==
    /\ loop[Smesher].pc = "broadcast"
    /\ loop[Smesher].oldNonce = "same"
    /\ \E a \in loop[Smesher].atx :
        /\ a.Challenge.PrevATXID # EmptyATXID
        /\ a.VRFNonce = Nil
        /\ a.NodeID = Nil

\* the time of the first layer of epoch e
EpochStart(e) == e * LayersPerEpoch * LayerDuration

\* C35: the ATX of a challenge is assembled and signed only when the clock
\* has reached the first layer of the publish epoch and the current epoch
\* is not greater than the publish epoch; the publisher accepts it only
\* between the first layer of the publish epoch and the first layer of the
\* epoch after it; and from that later time on the publish attempt (proof
\* construction, wait and broadcast) can only fail
C35_PublishWindow ==
    [][\A id \in NodeIDs :
        LET l == loop[id]
            pub == Get(l.chal).PublishEpoch
        IN
        l.pc \in {"buildNIPost", "waitPublish", "broadcast"}
                /\ loop'[id].pc # l.pc /\ mutex' # "dead" =>
            /\ loop'[id].pc = "broadcast" =>
                /\ l.pc = "waitPublish"
                /\ now >= EpochStart(pub)
                /\ now \div (LayersPerEpoch * LayerDuration) <= pub
                /\ loop'[id].atx # Nil
                /\ Get(loop'[id].atx).Challenge = Get(l.chal)
            /\ network'[id] # network[id] \/ loop'[id].pc = "waitSync" =>
                /\ l.pc = "broadcast"
                /\ network'[id] = l.atx
                /\ now >= EpochStart(pub)
                /\ now < EpochStart(pub + 1)
            /\ now >= EpochStart(pub + 1) =>
                /\ loop'[id].pc = "failed"
                /\ network' = network]_vars

\* the publisher has accepted an ATX in the last layer of its publish epoch
C35_Witness ==
    /\ loop[Smesher].pc = "waitSync"
    /\ network[Smesher] # Nil
    /\ now = EpochStart(Get(network[Smesher]).Challenge.PublishEpoch + 1) - 1

\* C36: for every identity and every publish epoch at most one distinct ATX
\* is accepted by the publisher from PublishActivationTx: an acceptance that
\* replaces an accepted ATX by a different one is for another publish epoch
C36_OneAtxPerEpoch ==
    [][\A id \in NodeIDs :
        /\ loop[id].pc = "broadcast"
        /\ network[id] # Nil
        /\ network'[id] # network[id]
        => Get(network'[id]).Challenge.PublishEpoch
               # Get(network[id]).Challenge.PublishEpoch]_vars

C38_LapsedInitialReplaced ==
    [][\A id \in NodeIDs :
        LET l == loop[id]
            pre == Challenge(challenges, id)
            left == loop'[id].pc # l.pc /\ mutex' # "dead"
        IN
        /\ (l.pc = "waitPublish" /\ l.wake = "event" /\ left
                /\ Get(l.chal).InitialPost # Nil
                /\ Get(l.chal).PublishEpoch < EpochAt(now)) =>
            /\ loop'[id].pc = "failed"
            /\ loop'[id].err = "other"
            /\ loop'[id].lapsed
            /\ challenges' = challenges
        /\ (l.pc = "failed" /\ l.err = "other" /\ l.lapsed /\ left) =>
            /\ loop'[id].pc = "retryWait"
            /\ loop'[id].until = LayerToTime(LayerAt(now) + 1)
            /\ challenges' = challenges
        /\ (l.pc = "retryWait" /\ l.lapsed /\ left) =>
            /\ loop'[id].pc \in {"waitSync", "exited"}
            /\ loop'[id].pc = "exited" => CtxDone(l.ctx)
            /\ loop'[id].pc = "waitSync" => now >= l.until
        /\ (l.pc = "waitSync" /\ left /\ pre # Nil
                /\ Get(pre).InitialPost # Nil
                /\ Get(pre).PublishEpoch < EpochAt(now)) =>
            \/ loop'[id].pc = "failed"
            \/ /\ loop'[id].pc \in {"waitRound", "posAtx"}
               /\ Challenge(challenges', id) = Nil
               /\ proverState'[id] = "idle"
        /\ (l.pc = "assemble" /\ l.lapsed /\ loop'[id].pc = "buildNIPost") =>
            /\ pre = Nil
            /\ Challenge(challenges', id) = loop'[id].chal
            /\ Get(loop'[id].chal).PublishEpoch > ResumedChallenge.PublishEpoch
       ]_vars

\* the loop has replaced the persisted initial challenge that lapsed: after
\* the reset and the removal it persisted another one, which it holds
C38_Witness ==
    LET l == loop[Smesher] IN
    /\ l.lapsed
    /\ l.pc = "buildNIPost"
    /\ Len(l.ops) >= 3
    /\ l.ops[1] = "reset" /\ l.ops[2] = "remove"
    /\ l.ops[Len(l.ops)] = "add"
    /\ Challenge(challenges, Smesher) = l.chal
    /\ l.chal # Some(ResumedChallenge)
    /\ proverState[Smesher] = "idle"

\* C39: under concurrent GetEpochATXs calls, also for different epochs,
\* updateAtxPeer never writes to an epoch entry of atxSynced that is absent,
\* so no call panics while it records its peer
C39_RecordingNeverPanics ==
    \A c \in FetchCalls : fetchCall[c].pc # "panic"

\* the step in which the caller c asks the peer it picked for its epoch info
Requests(c) ==
    /\ fetchCall[c].pc = "request"
    /\ fetchCall'[c].pc # "request"

\* what GetEpochATXs does apart from the choice of the peer it asks: it
\* returns errNoPeers when no peer is selected, and nil without a request
\* when every selected peer is recorded for the epoch; a request changes no
\* record, whatever it returns; and a peer is added to the record of an epoch
\* only by the call that asked it and got ATX ids from it
RecordsAndReturns ==
    /\ \A c \in FetchCalls :
        LET call == fetchCall[c]
            next == fetchCall'[c]
        IN
        /\ (call.pc \in {"idle", "done"} /\ next.pc = "done" /\ next # call) =>
            /\ ~next.asked
            /\ \/ /\ next.ret = "errNoPeers"
                  /\ atxSynced' = atxSynced
               \/ /\ next.ret = "nil"
                  /\ Len(next.peers) > 0
                  /\ atxSynced'[next.epoch] # Nil
                  /\ \A i \in 1 .. Len(next.peers) :
                        next.peers[i] \in Get(atxSynced'[next.epoch])
        /\ Requests(c) =>
            /\ atxSynced' = atxSynced
            /\ next.asked
            /\ next.pc = "done" => next.ret \in {"errInfo", "nil"}
    /\ (\E e \in FetchEpochs :
            /\ atxSynced'[e] # Nil
            /\ \/ atxSynced[e] = Nil /\ Get(atxSynced'[e]) # {}
               \/ atxSynced[e] # Nil /\ atxSynced'[e] # atxSynced[e]) =>
        \E c \in FetchCalls :
            /\ fetchCall[c].pc = "update"
            /\ fetchCall[c].asked
            /\ fetchCall'[c].pc = "done"
            /\ atxSynced' = [atxSynced EXCEPT ![fetchCall[c].epoch] =
                                Some(Get(@) \cup {fetchCall[c].peer})]

\* C40 as stated: GetEpochATXs never asks a peer for the epoch info of an
\* epoch the peer is recorded for when it is asked; it records a peer only
\* after the peer returned ATX ids; it returns nil without a request when
\* every selected peer is recorded and errNoPeers when none is selected; and
\* a failed request leaves the records as they were
C40_NoRequestToSyncedPeerAsStated ==
    [][/\ RecordsAndReturns
       /\ \A c \in FetchCalls :
            Requests(c) =>
                \/ atxSynced[fetchCall[c].epoch] = Nil
                \/ fetchCall[c].peer
                        \notin Get(atxSynced[fetchCall[c].epoch])]_vars

\* C40: GetEpochATXs picks, under the lock, the first selected peer that is
\* not recorded for the epoch at that moment, and asks that peer (which a
\* concurrent call may have recorded by then); it records a peer only after
\* the peer returned ATX ids; it returns nil without a request when every
\* selected peer is recorded and errNoPeers when none is selected; and a
\* failed request leaves the records as they were
C40_NoPickOfSyncedPeer ==
    [][/\ RecordsAndReturns
       /\ \A c \in FetchCalls :
            /\ (fetchCall[c].pc \in {"idle", "done"}
                    /\ fetchCall'[c].pc = "request") =>
                /\ atxSynced'[fetchCall'[c].epoch] # Nil
                /\ fetchCall'[c].peer \in Peers
                /\ fetchCall'[c].peer
                        \notin Get(atxSynced'[fetchCall'[c].epoch])
            /\ Requests(c) => fetchCall'[c].peer = fetchCall[c].peer]_vars

\* a call returned without a request because both peers it selected were
\* recorded for its epoch
C40_Witness ==
    \E c \in FetchCalls :
        /\ fetchCall[c].pc = "done"
        /\ fetchCall[c].ret = "nil"
        /\ ~fetchCall[c].asked
        /\ Len(fetchCall[c].peers) = 2
        /\ Get(atxSynced[fetchCall[c].epoch]) = Peers

====
